---- MODULE Spec2Model ----
(***************************************************************************)
(* WV-Networking: the datagram transport (Packet, NetConnection,           *)
(* NetDriver) as a state machine.  One server driver and the client        *)
(* drivers exchange serialized packets over a datagram network that may    *)
(* delay, reorder, drop and duplicate datagrams.                           *)
(*                                                                         *)
(* Time is counted in whole seconds.  Each driver step handles either one  *)
(* iteration of the receive loop of NetDriver::Tick (ReceiveDatagram) or   *)
(* the remainder of the tick once the socket is drained (TickRest).        *)
(***************************************************************************)
EXTENDS Integers, Sequences, FiniteSets, Bags, TLC

----------------------------------------------------------------------------
(* Program constants *)

PACKET_MAGIC == 1465273925

ConnectionRequest == 0

ConnectionAccept == 1

ConnectionDenied == 2

Disconnect == 3

Acknowledgement == 10

Heartbeat == 11

ActorReplication == 22

ActorSpawn == 20

ActorDestroy == 21

RPCServer == 30

RPCClient == 31

RPCMulticast == 32

\* Core.h: replication bursts per second.
DEFAULT_TICK_RATE == 30

ConnectionTimeout == 30

DEFAULT_MAX_CONNECTIONS == 64

\* Core.h: the maximum on-wire datagram size; ReceivePackets reads into a
\* buffer of twice this size.
MAX_PACKET_SIZE == 1024

----------------------------------------------------------------------------
(* Bounds of the model *)

\* Connections a driver creates during a run (CreateConnection calls).
MaxConnIds == 2

\* Sequence numbers a connection hands out before the model stops it sending.
MaxSeq == 3

\* Largest m_maxConnections given to InitAsServer.
MaxCapacity == 2

\* Largest value a connection clock reaches with a positive deltaTime.
MaxTime == 47

\* Datagrams the network may drop, and may duplicate, during a run.
MaxDrops == 1

MaxDups == 1

\* Packets the applications hand to NetDriver::SendPacket during a run.
MaxAppSends == 2

\* ConnectToServer calls per client.
MaxConnectCalls == 1

\* Ticks the lockstep schedule counts after ConnectToServer.
MaxTicks == 10

\* The longest datagram a host puts on the wire (an Ethernet frame's worth).
MaxDatagram == 1500

\* Actors a process constructs.
MaxActors == 3

\* Frames per second of the host loop: the unit of the replication accumulator
\* is one frame of a host running at full rate.
FrameRate == 60

Server == "S"

Clients == {"c1", "c2"}

Drivers == {Server} \cup Clients

\* deltaTime values handed to Tick; 0 stands for a frame far shorter than 1 s.
DeltaTimes == {0, 15, 16}

\* Packet kinds the applications send through NetDriver::SendPacket.
AppKinds == {Heartbeat, ActorReplication}

ConnIds == 1..MaxConnIds

NullConn == 0

----------------------------------------------------------------------------
(* BitStream: little-endian scalars over a byte sequence *)

Min(a, b) == IF a < b THEN a ELSE b

WriteUInt16(v) == << v % 256, (v \div 256) % 256 >>

WriteUInt32(v) ==
    << v % 256, (v \div 256) % 256, (v \div 65536) % 256, (v \div 16777216) % 256 >>

CanRead(stream, pos, n) == pos + n <= Len(stream)

ReadUInt(stream, pos, n) ==
    LET
        \* Read n bytes at pos (0-based offset): the value, or 0 with the cursor unmoved
        \* when fewer than n bytes remain.
        RECURSIVE LittleEndian(_)
        LittleEndian(bytes) ==
            IF bytes = << >> THEN 0 ELSE Head(bytes) + 256 * LittleEndian(Tail(bytes))
    IN
        IF CanRead(stream, pos, n)
        THEN [value |-> LittleEndian(SubSeq(stream, pos + 1, pos + n)), pos |-> pos + n]
        ELSE [value |-> 0, pos |-> pos]

ReadUInt32(stream) == ReadUInt(stream, 0, 4).value

\* n zero bytes.
Padding(n) == [i \in 1..n |-> 0]

\* WriteString: the length as an unsigned 32-bit integer, then the characters.
WriteString(str) == WriteUInt32(Len(str)) \o str

\* ReadString at pos: the cursor passes the length; a length of 0 or one that
\* reaches beyond the stream gives the empty string.
ReadString(stream, pos) ==
    LET length == ReadUInt(stream, pos, 4)
    IN  IF length.value = 0 \/ ~CanRead(stream, length.pos, length.value)
        THEN [value |-> << >>, pos |-> length.pos]
        ELSE [value |-> SubSeq(stream, length.pos + 1, length.pos + length.value),
              pos |-> length.pos + length.value]

----------------------------------------------------------------------------
(* Packet *)

MakePacket(type) == [packetType |-> type, sequence |-> 0, payload |-> << >>]

Packet_Serialize(p) ==
    WriteUInt32(PACKET_MAGIC) \o WriteUInt32(p.sequence)
        \o WriteUInt16(p.packetType) \o WriteUInt16(Len(p.payload)) \o p.payload

\* As PacketHeader_Deserialize, returning true whatever the magic is.
PacketHeader_DeserializeAnyMagic(stream) ==
    LET magic == ReadUInt(stream, 0, 4)
        sequence == ReadUInt(stream, magic.pos, 4)
        packetType == ReadUInt(stream, sequence.pos, 2)
        payloadSize == ReadUInt(stream, packetType.pos, 2)
    IN  [ok |-> TRUE,
         sequence |-> sequence.value,
         packetType |-> packetType.value,
         payloadSize |-> payloadSize.value,
         pos |-> payloadSize.pos]

PacketHeader_Deserialize(stream) ==
    LET magic == ReadUInt(stream, 0, 4)
        sequence == ReadUInt(stream, magic.pos, 4)
        packetType == ReadUInt(stream, sequence.pos, 2)
        payloadSize == ReadUInt(stream, packetType.pos, 2)
    IN  [ok |-> magic.value = PACKET_MAGIC,
         sequence |-> sequence.value,
         packetType |-> packetType.value,
         payloadSize |-> payloadSize.value,
         pos |-> payloadSize.pos]

Packet_Deserialize(stream) ==
    LET h == PacketHeader_Deserialize(stream)
        fits == h.payloadSize = 0 \/ CanRead(stream, h.pos, h.payloadSize)
    IN  [ok |-> h.ok /\ fits,
         error |-> IF ~h.ok THEN "Invalid packet magic number"
                   ELSE IF ~fits THEN "Packet payload size mismatch"
                   ELSE "",
         packet |-> [packetType |-> h.packetType,
                     sequence |-> h.sequence,
                     payload |-> IF h.ok /\ fits /\ h.payloadSize > 0
                                 THEN SubSeq(stream, h.pos + 1, h.pos + h.payloadSize)
                                 ELSE << >>]]

----------------------------------------------------------------------------
(* NetConnection.  A connection is a record; sent and acked are history     *)
(* fields that no operation reads: every SendPacket call in order, and      *)
(* every acknowledged sequence received together with the next outgoing     *)
(* sequence at that moment.                                                 *)

NewConnection(id, address) ==
    [id |-> id,
     m_address |-> address,
     m_state |-> "Connecting",
     m_outgoingSequence |-> 0,
     m_incomingSequence |-> 0,
     m_reliableBuffer |-> {},
     m_outgoingQueue |-> << >>,
     m_lastReceiveTime |-> 0,
     m_currentTime |-> 0,
     sent |-> << >>,
     acked |-> {}]

\* As GetNextOutgoingSequence, returning m_outgoingSequence without the increment.
GetNextOutgoingSequenceNoIncrement(c) ==
    [value |-> c.m_outgoingSequence, conn |-> c]

\* return m_outgoingSequence++ : the value returned and the connection after it.
GetNextOutgoingSequence(c) ==
    [value |-> c.m_outgoingSequence,
     conn |-> [c EXCEPT !.m_outgoingSequence = @ + 1]]

NetConnection_SendPacket(c, packet, reliable) ==
    LET
        \* m_reliableBuffer[key] = packet on a map held as a set of packets keyed by
        \* their sequence.
        BufferPut(buffer, packet1) ==
            {q \in buffer : q.sequence # packet1.sequence} \cup {packet1}
    IN
        LET next == GetNextOutgoingSequence(c)
            outPacket == [packet EXCEPT !.sequence = next.value]
        IN  [next.conn EXCEPT
                !.m_outgoingQueue = Append(@, outPacket),
                !.m_reliableBuffer = IF reliable THEN BufferPut(@, outPacket) ELSE @,
                !.sent = Append(@, [sequence |-> outPacket.sequence,
                                    packetType |-> outPacket.packetType,
                                    reliable |-> reliable])]

\* As NetConnection_FlushOutgoing, also erasing what it sent from m_reliableBuffer.
NetConnection_FlushOutgoingForgets(c, n) ==
    LET k == Min(n, Len(c.m_outgoingQueue))
        gone == {c.m_outgoingQueue[i].sequence : i \in 1..k}
    IN  [conn |-> [c EXCEPT !.m_outgoingQueue = SubSeq(@, k + 1, Len(@)),
                            !.m_reliableBuffer = {q \in @ : q.sequence \notin gone}],
         sent |-> [i \in 1..k |-> Packet_Serialize(c.m_outgoingQueue[i])]]

\* As NetConnection_FlushOutgoing, popping the head before the result of
\* send-to is looked at.
NetConnection_FlushOutgoingPopsFirst(c, n) ==
    LET k == Min(n, Len(c.m_outgoingQueue))
    IN  [conn |-> [c EXCEPT !.m_outgoingQueue = SubSeq(@, Min(k + 1, Len(@)) + 1, Len(@))],
         sent |-> [i \in 1..k |-> Packet_Serialize(c.m_outgoingQueue[i])]]

\* The first n queued packets go to send-to and leave the queue; the socket
\* reports would-block for the packet after them.
NetConnection_FlushOutgoing(c, n) ==
    LET k == Min(n, Len(c.m_outgoingQueue))
    IN  [conn |-> [c EXCEPT !.m_outgoingQueue = SubSeq(@, k + 1, Len(@))],
         sent |-> [i \in 1..k |-> Packet_Serialize(c.m_outgoingQueue[i])]]

\* As ProcessAcknowledgement, without the erase.
ProcessAcknowledgementKeepsEntry(c, packet) == c

ProcessAcknowledgement(c, packet) ==
    LET ackedSequence == ReadUInt32(packet.payload)
    IN  [c EXCEPT !.m_reliableBuffer = {q \in @ : q.sequence # ackedSequence}]

\* As SendAcknowledgement, with reliable set.
SendAcknowledgementReliable(c, sequence) ==
    NetConnection_SendPacket(
        c, [MakePacket(Acknowledgement) EXCEPT !.payload = WriteUInt32(sequence)], TRUE)

SendAcknowledgement(c, sequence) ==
    NetConnection_SendPacket(
        c, [MakePacket(Acknowledgement) EXCEPT !.payload = WriteUInt32(sequence)], FALSE)

NetConnection_ReceivePacket(c, packet) ==
    LET
        Max(a, b) == IF a > b THEN a ELSE b
    IN
        LET type == packet.packetType
            c1 == [c EXCEPT !.m_lastReceiveTime = c.m_currentTime,
                            !.m_incomingSequence = Max(@, packet.sequence)]
            c2 == IF type # Acknowledgement /\ type # Heartbeat
                  THEN SendAcknowledgement(c1, packet.sequence)
                  ELSE c1
        IN  IF type = Acknowledgement
            THEN [ProcessAcknowledgement(c2, packet)
                    EXCEPT !.acked = @ \cup {[sequence |-> ReadUInt32(packet.payload),
                                              next |-> c.m_outgoingSequence]}]
            ELSE c2

NetConnection_Tick(c, deltaTime) == [c EXCEPT !.m_currentTime = @ + deltaTime]

GetTimeSinceLastReceive(c) == c.m_currentTime - c.m_lastReceiveTime

\* As IsTimedOut, with >= for >.
IsTimedOutAtLimit(c, timeout) ==
    GetTimeSinceLastReceive(c) >= timeout

IsTimedOut(c, timeout) == GetTimeSinceLastReceive(c) > timeout

----------------------------------------------------------------------------
(* NetDriver.  A driver is a record.  m_connections owns the connection     *)
(* records, m_connectionList and m_serverConnection hold their ids (the     *)
(* raw pointers).  created counts CreateConnection calls and names the next *)
(* connection; connectCalls counts ConnectToServer calls.  onConnection,    *)
(* onDisconnection and onPacket record the callback invocations, requests   *)
(* counts the ConnectionRequest packets handled per peer address, failed    *)
(* holds the errors logged for datagrams that did not deserialize; tx holds *)
(* the datagrams handed to the socket's send-to during the current step.    *)

NewDriver(mode, maxConnections) ==
    [m_mode |-> mode,
     m_maxConnections |-> maxConnections,
     m_connections |-> << >>,
     m_connectionList |-> << >>,
     m_serverConnection |-> NullConn,
     created |-> 0,
     connectCalls |-> 0,
     onConnection |-> [i \in ConnIds |-> 0],
     onDisconnection |-> [i \in ConnIds |-> 0],
     seenState |-> [i \in ConnIds |-> ""],
     onPacket |-> {},
     failed |-> {},
     requests |-> [a \in Drivers |-> 0],
     tx |-> << >>]

IsServer(D) == D.m_mode = "Server"

IsClient(D) == D.m_mode = "Client"

SeqToSet(q) == {q[i] : i \in DOMAIN q}

ConnOf(D, id) ==
    LET i == CHOOSE i \in DOMAIN D.m_connections : D.m_connections[i].id = id
    IN  D.m_connections[i]

HasConn(D, id) == \E i \in DOMAIN D.m_connections : D.m_connections[i].id = id

\* Apply an update to the connection object a pointer designates.
SetConn(D, id, c) ==
    [D EXCEPT !.m_connections =
        [i \in DOMAIN @ |-> IF @[i].id = id THEN c ELSE @[i]]]

NetDriver_SendPacket(D, connection, packet, reliable) ==
    IF connection = NullConn
    THEN D
    ELSE SetConn(D, connection,
                 NetConnection_SendPacket(ConnOf(D, connection), packet, reliable))

FindConnection(D, address) ==
    LET hits == {i \in DOMAIN D.m_connections : D.m_connections[i].m_address = address}
    IN  IF hits = {}
        THEN NullConn
        ELSE D.m_connections[CHOOSE i \in hits : \A j \in hits : i <= j].id

CreateConnection(D, address) ==
    LET id == D.created + 1
    IN  [D EXCEPT !.created = id,
                  !.m_connections = Append(@, NewConnection(id, address)),
                  !.m_connectionList = Append(@, id)]

RemoveConnection(D, connection) ==
    [D EXCEPT
        !.m_connectionList = SelectSeq(@, LAMBDA x : x # connection),
        !.m_connections = SelectSeq(@, LAMBDA c : c.id # connection),
        !.m_serverConnection = IF connection = @ THEN NullConn ELSE @]

SetState(D, connection, state) ==
    SetConn(D, connection, [ConnOf(D, connection) EXCEPT !.m_state = state])

OnConnection(D, connection) ==
    [D EXCEPT !.onConnection[connection] = @ + 1]

\* The on-disconnection callback runs: seenState keeps the state the
\* connection is in when the callback looks at it.
OnDisconnection(D, connection) ==
    [D EXCEPT !.onDisconnection[connection] = @ + 1,
              !.seenState[connection] = ConnOf(D, connection).m_state]

DisconnectClient(D, connection) ==
    IF connection = NullConn
    THEN D
    ELSE LET D1 == NetDriver_SendPacket(D, connection, MakePacket(Disconnect), FALSE)
             D2 == SetState(D1, connection, "Disconnected")
             D3 == OnDisconnection(D2, connection)
         IN  RemoveConnection(D3, connection)

ConnectToServer(D, serverAddr) ==
    IF ~IsClient(D)
    THEN D
    ELSE LET D1 == CreateConnection(D, serverAddr)
             D2 == [D1 EXCEPT !.m_serverConnection = D1.created,
                              !.connectCalls = @ + 1]
         IN  NetDriver_SendPacket(D2, D2.m_serverConnection,
                                  MakePacket(ConnectionRequest), TRUE)

AcceptConnection(D, from) ==
    LET D1 == CreateConnection(D, from)
        newConnection == D1.created
        D2 == SetState(D1, newConnection, "Connected")
        D3 == NetDriver_SendPacket(D2, newConnection, MakePacket(ConnectionAccept), TRUE)
    IN  OnConnection(D3, newConnection)

DenyConnection(D, from) ==
    LET
        SocketSendTo(D1, dest, data) ==
            [D1 EXCEPT !.tx = Append(@, [dst |-> dest, data |-> data])]
    IN
        SocketSendTo(D, from, Packet_Serialize(MakePacket(ConnectionDenied)))

\* As HandleConnectionRequest, without the FindConnection check.
HandleConnectionRequestNoLookup(D, from, packet) ==
    LET D0 == [D EXCEPT !.requests[from] = @ + 1]
    IN  IF Len(D0.m_connections) >= D0.m_maxConnections
        THEN DenyConnection(D0, from)
        ELSE AcceptConnection(D0, from)

\* As HandleConnectionRequest, with > for >= in the capacity check.
HandleConnectionRequestOffByOne(D, from, packet) ==
    LET D0 == [D EXCEPT !.requests[from] = @ + 1]
    IN  IF FindConnection(D0, from) # NullConn
        THEN D0
        ELSE IF Len(D0.m_connections) > D0.m_maxConnections
        THEN DenyConnection(D0, from)
        ELSE AcceptConnection(D0, from)

\* As HandleConnectionRequest, without sending the ConnectionAccept.
HandleConnectionRequestNoAccept(D, from, packet) ==
    LET D0 == [D EXCEPT !.requests[from] = @ + 1]
    IN  IF FindConnection(D0, from) # NullConn
        THEN D0
        ELSE IF Len(D0.m_connections) >= D0.m_maxConnections
        THEN DenyConnection(D0, from)
        ELSE OnConnection(SetState(CreateConnection(D0, from), D0.created + 1, "Connected"),
                          D0.created + 1)

HandleConnectionRequest(D, from, packet) ==
    LET D0 == [D EXCEPT !.requests[from] = @ + 1]
    IN  IF FindConnection(D0, from) # NullConn
        THEN D0
        ELSE IF Len(D0.m_connections) >= D0.m_maxConnections
        THEN DenyConnection(D0, from)
        ELSE AcceptConnection(D0, from)

HandleDisconnect(D, connection, packet) ==
    RemoveConnection(OnDisconnection(D, connection), connection)

\* One iteration of the receive loop of ReceivePackets, for the datagram
\* (from, data) that receive-from returned.
ReceiveIteration(D, from, data) ==
    LET
        OnPacket(D1, connection, packet) ==
            [D1 EXCEPT !.onPacket = @ \cup {[conn |-> connection,
                                            packetType |-> packet.packetType,
                                            sequence |-> packet.sequence]}]
    IN
        LET r == Packet_Deserialize(data)
            packet == r.packet
            connection == FindConnection(D, from)
        IN  IF ~r.ok
            THEN [D EXCEPT !.failed = @ \cup {r.error}]
            ELSE IF packet.packetType = ConnectionRequest
            THEN IF IsServer(D) THEN HandleConnectionRequest(D, from, packet) ELSE D
            ELSE IF packet.packetType = ConnectionAccept
            THEN IF IsClient(D) /\ D.m_serverConnection # NullConn
                 THEN OnConnection(SetState(D, D.m_serverConnection, "Connected"),
                                   D.m_serverConnection)
                 ELSE D
            ELSE IF packet.packetType = Disconnect
            THEN IF connection # NullConn THEN HandleDisconnect(D, connection, packet) ELSE D
            ELSE IF connection # NullConn
            THEN OnPacket(SetConn(D, connection,
                                  NetConnection_ReceivePacket(ConnOf(D, connection), packet)),
                          connection, packet)
            ELSE D

FlushOutgoingPackets(D, room) ==
    LET
        \* FlushOutgoing on each owned connection in turn; room is the number of
        \* datagrams the socket accepts before it reports would-block.
        RECURSIVE FlushFrom(_, _, _)
        FlushFrom(D0, i, room1) ==
            IF i > Len(D0.m_connections)
            THEN D0
            ELSE LET f == NetConnection_FlushOutgoing(D0.m_connections[i], room1)
                     c == D0.m_connections[i]
                     D1 == [D0 EXCEPT !.m_connections[i] = f.conn,
                                     !.tx = @ \o [k \in 1..Len(f.sent) |->
                                                    [dst |-> c.m_address, data |-> f.sent[k]]]]
                 IN  FlushFrom(D1, i + 1, room1 - Len(f.sent))
    IN
        FlushFrom(D, 1, room)

CheckTimeouts(D) ==
    LET
        RECURSIVE DisconnectAll(_, _)
        DisconnectAll(D1, timedOut) ==
            IF timedOut = << >>
            THEN D1
            ELSE DisconnectAll(DisconnectClient(D1, Head(timedOut)), Tail(timedOut))
    IN
        IF ~IsServer(D)
        THEN D
        ELSE LET timedOut == SelectSeq(D.m_connectionList,
                                       LAMBDA x : IsTimedOut(ConnOf(D, x), ConnectionTimeout))
             IN  DisconnectAll(D, timedOut)

\* NetDriver::Shutdown: a Disconnect is enqueued on every Connected
\* connection, then the connections are destroyed with their queues and the
\* socket is closed.
NetDriver_Shutdown(D) ==
    LET RECURSIVE Enqueue(_, _)
        Enqueue(D1, i) ==
            IF i > Len(D1.m_connections)
            THEN D1
            ELSE Enqueue(IF D1.m_connections[i].m_state = "Connected"
                         THEN NetDriver_SendPacket(D1, D1.m_connections[i].id,
                                                   MakePacket(Disconnect), FALSE)
                         ELSE D1,
                         i + 1)
    IN  [Enqueue(D, 1) EXCEPT !.m_connections = << >>,
                              !.m_connectionList = << >>,
                              !.m_serverConnection = NullConn,
                              !.m_mode = "Standalone"]

\* NetDriver::Tick after its receive loop has drained the socket.
TickAfterReceive(D, deltaTime, room) ==
    LET
        TickConnections(D1, deltaTime1) ==
            [D1 EXCEPT !.m_connections =
                [i \in DOMAIN @ |-> NetConnection_Tick(@[i], deltaTime1)]]
    IN
        CheckTimeouts(FlushOutgoingPackets(TickConnections(D, deltaTime), room))

----------------------------------------------------------------------------
(* ReplicatedProperty and Actor *)

\* PropertyType enumerators.
Bool == 0

Int32 == 5

Vector3 == 11

String == 13

\* Bytes of the fixed-width kinds Bool .. Quaternion, by enumerator.
FixedWidth == << 1, 1, 1, 2, 2, 4, 4, 8, 8, 4, 8, 12, 16 >>

\* "PlayerActor", "Health" and "Position": the type name and the property
\* names of the replicated actor class of the sample server and client.
PlayerActorName == << 80, 108, 97, 121, 101, 114, 65, 99, 116, 111, 114 >>

HealthName == << 72, 101, 97, 108, 116, 104 >>

\* The value of Health an actor is constructed with.
InitialHealth == 100

NullActor == 0

\* ReplicatedProperty(name, type, ptr, size): data is the memory of the bound
\* variable, lastValue starts as size zero bytes.
NewProperty(name, type, data) ==
    [name |-> name, type |-> type, size |-> Len(data), data |-> data,
     lastValue |-> Padding(Len(data))]

HasChanged(prop) ==
    IF prop.lastValue = << >> THEN TRUE ELSE prop.data # prop.lastValue

\* As UpdateLastValue, without the copy.
UpdateLastValueNoCopy(prop) == prop

UpdateLastValue(prop) ==
    IF prop.lastValue # << >> THEN [prop EXCEPT !.lastValue = prop.data] ELSE prop

Property_Serialize(prop) ==
    LET
        \* The bytes Serialize writes for the value: a fixed-width kind is written from
        \* the bound variable, a Bool as 0 or 1.
        ValueBytes(prop1) ==
            IF prop1.type = Bool
            THEN << IF prop1.data[1] # 0 THEN 1 ELSE 0 >>
            ELSE IF prop1.type + 1 \in DOMAIN FixedWidth
            THEN SubSeq(prop1.data, 1, Min(FixedWidth[prop1.type + 1], Len(prop1.data)))
            ELSE << >>
    IN
        WriteString(prop.name) \o << prop.type >> \o ValueBytes(prop)

\* ReplicatedProperty::Deserialize with the read cursor at pos: it reads a
\* name, a kind and a value of that kind, in this order, overwrites the
\* property's name and kind and stores the value through the binding.  A
\* value shorter than the remaining stream reads as 0.  (A kind wider than
\* the bound variable would write beyond it; the values modelled never
\* decode to such a kind.)
Property_Deserialize(prop, stream, pos) ==
    LET
        \* The bound variable after count bytes were stored at its start.
        Store(data, bytes) ==
            [i \in DOMAIN data |-> IF i <= Len(bytes) THEN bytes[i] ELSE data[i]]
    IN
        LET name == ReadString(stream, pos)
            type == ReadUInt(stream, name.pos, 1)
            width == IF type.value + 1 \in DOMAIN FixedWidth
                     THEN FixedWidth[type.value + 1] ELSE 0
            fits == CanRead(stream, type.pos, width)
            raw == IF fits THEN SubSeq(stream, type.pos + 1, type.pos + width)
                   ELSE Padding(width)
            value == IF type.value = Bool
                     THEN << IF raw[1] # 0 THEN 1 ELSE 0 >>
                     ELSE SubSeq(raw, 1, Min(width, Len(prop.data)))
            after == [prop EXCEPT !.name = name.value, !.type = type.value,
                                  !.data = Store(@, value)]
        IN  [prop |-> UpdateLastValue(after),
             pos |-> IF fits THEN type.pos + width ELSE type.pos]

\* The actor the application's factory constructs: a PlayerActor, which sets
\* its replicates flag and registers the Int32 property Health and the
\* Vector3 property Position.
NewPlayerActor(obj) ==
    LET
        PositionName == << 80, 111, 115, 105, 116, 105, 111, 110 >>
    IN
        [obj |-> obj,
         m_netId |-> 0,
         m_replicates |-> TRUE,
         typeName |-> PlayerActorName,
         m_position |-> Padding(12),
         m_rotation |-> << 0, 0, 128, 63 >> \o Padding(12),
         m_replicatedProperties |->
             << [key |-> HealthName,
                 prop |-> NewProperty(HealthName, Int32, WriteUInt32(InitialHealth))],
                [key |-> PositionName,
                 prop |-> NewProperty(PositionName, Vector3, Padding(12))] >>]

----------------------------------------------------------------------------
(* World *)

\* World(): constructed counts the actors the process has created (an
\* actor's identity), onDestroy lists the actors whose destroy hook has run,
\* cursor is the position of Tick in the iteration list (0 outside Tick),
\* ticked the actors whose tick hook has run in the current frame and calls
\* the destroy calls made since the last destroy pass.
NewWorld ==
    [m_actors |-> << >>,
     m_actorList |-> << >>,
     m_actorsByNetId |-> {},
     m_actorFactories |-> {PlayerActorName},
     m_nextNetId |-> 1,
     m_pendingDestroy |-> << >>,
     constructed |-> 0,
     onDestroy |-> << >>,
     cursor |-> 0,
     ticked |-> {},
     calls |-> {}]

Owned(W) == {W.m_actors[i].obj : i \in DOMAIN W.m_actors}

ActorOf(W, obj) ==
    LET i == CHOOSE i \in DOMAIN W.m_actors : W.m_actors[i].obj = obj
    IN  W.m_actors[i]

SetActor(W, obj, actor) ==
    [W EXCEPT !.m_actors =
        [i \in DOMAIN @ |-> IF @[i].obj = obj THEN actor ELSE @[i]]]

Without(list, x) == SelectSeq(list, LAMBDA y : y # x)

GetActorByNetId(W, netId) ==
    IF \E e \in W.m_actorsByNetId : e.netId = netId
    THEN (CHOOSE e \in W.m_actorsByNetId : e.netId = netId).actor
    ELSE NullActor

\* SpawnActor: the world and the spawned actor.
SpawnActor(W, actor) ==
    LET netId == W.m_nextNetId
    IN  [world |-> [W EXCEPT !.m_nextNetId = netId + 1,
                             !.m_actorsByNetId =
                                 {e \in @ : e.netId # netId}
                                     \cup {[netId |-> netId, actor |-> actor.obj]},
                             !.m_actorList = Append(@, actor.obj),
                             !.m_actors = Append(@, [actor EXCEPT !.m_netId = netId])],
         actor |-> actor.obj]

SpawnActorByType(W, typeName) ==
    IF typeName \notin W.m_actorFactories
    THEN [world |-> W, actor |-> NullActor]
    ELSE SpawnActor([W EXCEPT !.constructed = @ + 1], NewPlayerActor(W.constructed + 1))

\* As DestroyActor, but the actor leaves the containers at once.
DestroyActorAtOnce(W, obj) ==
    IF obj = NullActor
    THEN W
    ELSE [W EXCEPT !.onDestroy = Append(@, obj),
                   !.m_actorsByNetId = {e \in @ : e.netId # ActorOf(W, obj).m_netId},
                   !.m_actorList = Without(@, obj),
                   !.m_actors = SelectSeq(@, LAMBDA a : a.obj # obj)]

\* As DestroyActor, without the search of the pending list.
DestroyActorNoFind(W, obj) ==
    IF obj = NullActor
    THEN W
    ELSE [W EXCEPT !.m_pendingDestroy = Append(@, obj)]

DestroyActor(W, obj) ==
    IF obj = NullActor
    THEN W
    ELSE IF obj \in SeqToSet(W.m_pendingDestroy)
    THEN W
    ELSE [W EXCEPT !.m_pendingDestroy = Append(@, obj)]

DestroyActorById(W, netId) == DestroyActor(W, GetActorByNetId(W, netId))

\* The destroy pass of Tick over the pending list from its i-th entry: the
\* destroy hook, then the erasure from the id map under the actor's NetId,
\* from the iteration list and from the owned actors.
RECURSIVE ProcessPendingDestroys(_, _)
ProcessPendingDestroys(W, i) ==
    IF i > Len(W.m_pendingDestroy)
    THEN [W EXCEPT !.m_pendingDestroy = << >>]
    ELSE LET obj == W.m_pendingDestroy[i]
         IN  ProcessPendingDestroys(
                 [W EXCEPT !.onDestroy = Append(@, obj),
                           !.m_actorsByNetId =
                               {e \in @ : e.netId # ActorOf(W, obj).m_netId},
                           !.m_actorList = Without(@, obj),
                           !.m_actors = SelectSeq(@, LAMBDA a : a.obj # obj)],
                 i + 1)

----------------------------------------------------------------------------
(* ReplicationManager *)

\* Read n raw bytes at pos: zero bytes with the cursor unmoved when fewer remain.
ReadBytes(stream, pos, n) ==
    IF CanRead(stream, pos, n)
    THEN [value |-> SubSeq(stream, pos + 1, pos + n), pos |-> pos + n]
    ELSE [value |-> Padding(n), pos |-> pos]

\* ReadVector3 / ReadQuaternion: count floats, one after the other.
RECURSIVE ReadFloats(_, _, _)
ReadFloats(stream, pos, count) ==
    IF count = 0
    THEN [value |-> << >>, pos |-> pos]
    ELSE LET first == ReadBytes(stream, pos, 4)
             rest == ReadFloats(stream, first.pos, count - 1)
         IN  [value |-> first.value \o rest.value, pos |-> rest.pos]

\* ReplicationManager(): snapshot holds the bound variables of the replicated
\* actors as the previous burst found them (empty before the first burst),
\* replicated the connections for which a burst has called ReplicateActors
\* and skipped the (connection, actor) pairs for which SendActorUpdate
\* returned without a packet in the latest burst.
NewReplicationManager ==
    [m_timeSinceLastReplication |-> 0,
     m_replicatedActors |-> << >>,
     m_connectionStates |-> {},
     snapshot |-> << >>,
     replicated |-> {},
     skipped |-> {}]

RegisterActor(M, actor) ==
    IF actor.obj = NullActor \/ ~actor.m_replicates
    THEN M
    ELSE IF actor.obj \in SeqToSet(M.m_replicatedActors)
    THEN M
    ELSE [M EXCEPT !.m_replicatedActors = Append(@, actor.obj)]

\* The loop of NetworkManager::Tick and OnClientConnected over the world's
\* actors, from the i-th on.
RECURSIVE RegisterActors(_, _, _)
RegisterActors(M, W, i) ==
    IF i > Len(W.m_actorList)
    THEN M
    ELSE RegisterActors(RegisterActor(M, ActorOf(W, W.m_actorList[i])), W, i + 1)

\* The replication state kept under (connection, actorNetId), if any.
ReplicationStates(M, connection, actorNetId) ==
    {e \in M.m_connectionStates :
        e.connection = connection /\ e.actorNetId = actorNetId}

GetOrCreateReplicationState(M, connection, actorNetId) ==
    IF ReplicationStates(M, connection, actorNetId) = {}
    THEN [M EXCEPT !.m_connectionStates =
             @ \cup {[connection |-> connection, actorNetId |-> actorNetId,
                      spawned |-> FALSE]}]
    ELSE M

\* G is the server's [driver, world, repl]; connection a connection id.
SendActorSpawn(G, obj, connection) ==
    LET
        ActorSpawnPacket(actor) ==
            [packetType |-> ActorSpawn, sequence |-> 0,
             payload |-> WriteUInt32(actor.m_netId) \o WriteString(actor.typeName)
                             \o actor.m_position \o actor.m_rotation]
    IN
        [G EXCEPT !.driver = NetDriver_SendPacket(@, connection,
                                                 ActorSpawnPacket(ActorOf(G.world, obj)), TRUE)]

\* The properties of props that HasChanged, in order.
Changed(props) == SelectSeq(props, LAMBDA e : HasChanged(e.prop))

RECURSIVE SerializeAll(_)
SerializeAll(props) ==
    IF props = << >> THEN << >>
    ELSE Property_Serialize(Head(props).prop) \o SerializeAll(Tail(props))

ActorReplicationPacket(actor) ==
    [packetType |-> ActorReplication, sequence |-> 0,
     payload |-> WriteUInt32(actor.m_netId)
                     \o WriteUInt32(Len(Changed(actor.m_replicatedProperties)))
                     \o SerializeAll(Changed(actor.m_replicatedProperties))]

\* As SendActorUpdate, but a packet is built and sent even when no property
\* has changed.
SendActorUpdateAlways(G, obj, connection) ==
    LET actor == ActorOf(G.world, obj)
        properties == actor.m_replicatedProperties
        updated == [actor EXCEPT !.m_replicatedProperties =
                       [i \in DOMAIN properties |->
                           IF HasChanged(properties[i].prop)
                           THEN [properties[i] EXCEPT !.prop = UpdateLastValue(@)]
                           ELSE properties[i]]]
    IN  [G EXCEPT !.world = SetActor(@, obj, updated),
                  !.repl.skipped = IF Changed(properties) = << >>
                                   THEN @ \cup {[connection |-> connection, actor |-> obj]}
                                   ELSE @,
                  !.driver = NetDriver_SendPacket(@, connection,
                                                  ActorReplicationPacket(actor), TRUE)]

SendActorUpdate(G, obj, connection) ==
    LET actor == ActorOf(G.world, obj)
        properties == actor.m_replicatedProperties
        updated == [actor EXCEPT !.m_replicatedProperties =
                       [i \in DOMAIN properties |->
                           IF HasChanged(properties[i].prop)
                           THEN [properties[i] EXCEPT !.prop = UpdateLastValue(@)]
                           ELSE properties[i]]]
    IN  IF Changed(properties) = << >>
        THEN [G EXCEPT !.repl.skipped = @ \cup {[connection |-> connection, actor |-> obj]}]
        ELSE [G EXCEPT !.world = SetActor(@, obj, updated),
                       !.driver = NetDriver_SendPacket(@, connection,
                                                       ActorReplicationPacket(actor), TRUE)]

\* ReplicateActors for the connection at heap address ptr, from the i-th
\* registered actor on.
RECURSIVE ReplicateActors(_, _, _, _)
ReplicateActors(G, connection, ptr, i) ==
    LET
        Spawned(M, connection1, actorNetId) ==
            \E e \in ReplicationStates(M, connection1, actorNetId) : e.spawned
        SetSpawned(M, connection1, actorNetId) ==
            [M EXCEPT !.m_connectionStates =
                {e \in @ : ~(e.connection = connection1 /\ e.actorNetId = actorNetId)}
                    \cup {[connection |-> connection1, actorNetId |-> actorNetId,
                           spawned |-> TRUE]}]
    IN
        IF i > Len(G.repl.m_replicatedActors)
        THEN G
        ELSE LET obj == G.repl.m_replicatedActors[i]
                 netId == ActorOf(G.world, obj).m_netId
                 G1 == [G EXCEPT !.repl = GetOrCreateReplicationState(@, ptr, netId)]
                 G2 == IF ~Spawned(G1.repl, ptr, netId)
                       THEN [SendActorSpawn(G1, obj, connection) EXCEPT
                                !.repl = SetSpawned(@, ptr, netId)]
                       ELSE G1
             IN  ReplicateActors(SendActorUpdate(G2, obj, connection), connection, ptr, i + 1)

\* The burst of ReplicationManager::Tick over the connection list from its
\* i-th entry; heap gives the address of each connection object.
RECURSIVE Burst(_, _, _)
Burst(G, heap, i) ==
    IF i > Len(G.driver.m_connectionList)
    THEN G
    ELSE LET connection == G.driver.m_connectionList[i]
         IN  Burst(IF ConnOf(G.driver, connection).m_state = "Connected"
                   THEN [ReplicateActors(G, connection, heap[connection], 1) EXCEPT
                            !.repl.replicated = @ \cup {connection}]
                   ELSE G,
                   heap, i + 1)

\* Does ReplicationManager::Tick(deltaTime) emit a burst?
BurstDue(M, deltaTime) ==
    LET
        \* The replication interval 1 / tickRate, in frames.
        ReplicationInterval == FrameRate \div DEFAULT_TICK_RATE
    IN
        M.m_timeSinceLastReplication + deltaTime >= ReplicationInterval

ReplicationManager_Tick(G, heap, deltaTime) ==
    LET
        \* The bound variables of the registered actors.
        Snapshot(G1) ==
            [i \in DOMAIN G1.repl.m_replicatedActors |->
                LET actor == ActorOf(G1.world, G1.repl.m_replicatedActors[i])
                IN  [actor |-> actor.obj,
                     data |-> [k \in DOMAIN actor.m_replicatedProperties |->
                                  actor.m_replicatedProperties[k].prop.data]]]
    IN
        IF ~IsServer(G.driver)
        THEN G
        ELSE IF BurstDue(G.repl, deltaTime)
        THEN LET before == [G EXCEPT !.repl.snapshot = Snapshot(G), !.repl.skipped = {}]
             IN  [Burst(before, heap, 1) EXCEPT !.repl.m_timeSinceLastReplication = 0]
        ELSE [G EXCEPT !.repl.m_timeSinceLastReplication = @ + deltaTime]

\* NetworkManager::Tick once the driver's receive loop has drained the
\* socket: the rest of the driver's tick (frames are far shorter than a
\* second, the connection clocks stand still), then on the server the
\* registration of the world's replicating actors and the replication tick.
NetworkManager_Tick(G, heap, deltaTime, room) ==
    LET G1 == [G EXCEPT !.driver = TickAfterReceive(@, 0, room)]
    IN  IF IsServer(G.driver)
        THEN ReplicationManager_Tick(
                 [G1 EXCEPT !.repl = RegisterActors(@, G1.world, 1)], heap, deltaTime)
        ELSE G1

\* HandleActorSpawn on the receiving process's world.
HandleActorSpawn(W, payload) ==
    LET netId == ReadUInt(payload, 0, 4)
        typeName == ReadString(payload, netId.pos)
        position == ReadFloats(payload, typeName.pos, 3)
        rotation == ReadFloats(payload, position.pos, 4)
        r == SpawnActorByType(W, typeName.value)
    IN  IF r.actor = NullActor
        THEN r.world
        ELSE SetActor(r.world, r.actor,
                      [ActorOf(r.world, r.actor) EXCEPT
                          !.m_netId = netId.value,
                          !.m_position = position.value,
                          !.m_rotation = rotation.value,
                          !.m_replicates = TRUE])

HandleActorDestroy(W, payload) == DestroyActorById(W, ReadUInt(payload, 0, 4).value)

\* The index of the registered property found under propName (0: none).
FindProperty(actor, propName) ==
    LET hits == {k \in DOMAIN actor.m_replicatedProperties :
                    actor.m_replicatedProperties[k].key = propName}
    IN  IF hits = {} THEN 0 ELSE CHOOSE k \in hits : TRUE

\* The loop of HandleActorUpdate with left entries to go and the read cursor
\* at pos: the name and the kind are read; for a registered property the
\* cursor is reset and moved forward again to one byte before where it
\* stood, and the property deserializes itself from there.
RECURSIVE UpdateProperties(_, _, _, _)
UpdateProperties(actor, payload, pos, left) ==
    IF left = 0
    THEN actor
    ELSE LET propName == ReadString(payload, pos)
             propType == ReadUInt(payload, propName.pos, 1)
             k == FindProperty(actor, propName.value)
             readPos == propType.pos
             rewound == Min(readPos - 1, Len(payload))
             d == Property_Deserialize(actor.m_replicatedProperties[k].prop,
                                       payload, rewound)
         IN  IF k = 0
             THEN UpdateProperties(actor, payload, readPos, left - 1)
             ELSE UpdateProperties(
                      [actor EXCEPT !.m_replicatedProperties[k].prop = d.prop],
                      payload, d.pos, left - 1)

HandleActorUpdate(W, payload) ==
    LET netId == ReadUInt(payload, 0, 4)
        propertyCount == ReadUInt(payload, netId.pos, 4)
        obj == GetActorByNetId(W, netId.value)
    IN  IF obj = NullActor
        THEN W
        ELSE SetActor(W, obj,
                      UpdateProperties(ActorOf(W, obj), payload, propertyCount.pos,
                                       propertyCount.value))

ProcessActorReplication(W, packet) ==
    IF packet.packetType = ActorSpawn THEN HandleActorSpawn(W, packet.payload)
    ELSE IF packet.packetType = ActorDestroy THEN HandleActorDestroy(W, packet.payload)
    ELSE IF packet.packetType = ActorReplication THEN HandleActorUpdate(W, packet.payload)
    ELSE W

\* NetworkManager::OnPacketReceived: the replication kinds go to the
\* replication engine.
OnPacketReceived(W, packet) ==
    IF packet.packetType \in {ActorSpawn, ActorDestroy, ActorReplication}
    THEN ProcessActorReplication(W, packet)
    ELSE W

\* Does this iteration of the receive loop pass its packet to the on-packet
\* callback?
PassesToOnPacket(D, from, data) ==
    /\ Packet_Deserialize(data).ok
    /\ Packet_Deserialize(data).packet.packetType
           \notin {ConnectionRequest, ConnectionAccept, Disconnect}
    /\ FindConnection(D, from) # NullConn

----------------------------------------------------------------------------
(* RPCManager.  A manager is a record: m_rpcRegistry holds one entry        *)
(* [name, type] per registered function name, invoked lists the handler     *)
(* invocations in order, each with the function name, the type the handler  *)
(* was registered with and the kind of the packet that caused it;           *)
(* mismatches counts the "Packet type mismatch" errors logged.              *)

NewRPCManager == [m_rpcRegistry |-> {}, invoked |-> << >>, mismatches |-> 0]

RegisterRPC(R, functionName, type) ==
    [R EXCEPT !.m_rpcRegistry =
        {e \in @ : e.name # functionName} \cup {[name |-> functionName, type |-> type]}]

SendRPC(D, connection, packetType, actorNetId, functionName, params) ==
    NetDriver_SendPacket(
        D, connection,
        [MakePacket(packetType) EXCEPT
            !.payload = WriteUInt32(actorNetId) \o WriteString(functionName) \o params],
        TRUE)

\* actor is the pointer the caller passes: an actor of the world W, or
\* NullActor.
CallServerRPC(D, W, actor, functionName, params) ==
    IF actor = NullActor
    THEN D
    ELSE IF ~IsClient(D)
    THEN D
    ELSE IF D.m_serverConnection = NullConn
    THEN D
    ELSE SendRPC(D, D.m_serverConnection, RPCServer, ActorOf(W, actor).m_netId, functionName, params)

CallClientRPC(D, W, actor, client, functionName, params) ==
    IF actor = NullActor \/ client = NullConn
    THEN D
    ELSE IF ~IsServer(D)
    THEN D
    ELSE SendRPC(D, client, RPCClient, ActorOf(W, actor).m_netId, functionName, params)

\* The loop of CallMulticastRPC over the connection list from its i-th entry.
RECURSIVE CallMulticastRPC(_, _, _, _, _, _)
CallMulticastRPC(D, W, actor, functionName, params, i) ==
    IF actor = NullActor \/ ~IsServer(D) \/ i > Len(D.m_connectionList)
    THEN D
    ELSE LET connection == D.m_connectionList[i]
         IN  CallMulticastRPC(
                 IF ConnOf(D, connection).m_state = "Connected"
                 THEN SendRPC(D, connection, RPCMulticast, ActorOf(W, actor).m_netId,
                              functionName, params)
                 ELSE D,
                 W, actor, functionName, params, i + 1)

\* As ProcessRPC, without the comparison of the packet's kind with the kind
\* the handler's type expects.
ProcessRPCAnyKind(R, W, packet) ==
    LET actorNetId == ReadUInt(packet.payload, 0, 4)
        functionName == ReadString(packet.payload, actorNetId.pos)
        actor == GetActorByNetId(W, actorNetId.value)
        found == {e \in R.m_rpcRegistry : e.name = functionName.value}
    IN  IF actor = NullActor \/ found = {}
        THEN R
        ELSE LET metadata == CHOOSE e \in found : TRUE
             IN  [R EXCEPT !.invoked = Append(@, [name |-> metadata.name,
                                                  type |-> metadata.type,
                                                  packetType |-> packet.packetType,
                                                  actor |-> actor])]

\* ProcessRPC on the manager R of a process whose world is W: the handler
\* registered under the function name is invoked when the actor exists and
\* the packet's kind is the one the handler's type expects.
ProcessRPC(R, W, packet) ==
    LET actorNetId == ReadUInt(packet.payload, 0, 4)
        functionName == ReadString(packet.payload, actorNetId.pos)
        actor == GetActorByNetId(W, actorNetId.value)
        found == {e \in R.m_rpcRegistry : e.name = functionName.value}
    IN  IF actor = NullActor \/ found = {}
        THEN R
        ELSE LET metadata == CHOOSE e \in found : TRUE
                 expectedPacketType ==
                     CASE metadata.type = "Server" -> RPCServer
                       [] metadata.type = "Client" -> RPCClient
                       [] metadata.type = "Multicast" -> RPCMulticast
                       [] OTHER -> RPCServer
             IN  IF packet.packetType # expectedPacketType
                 THEN [R EXCEPT !.mismatches = @ + 1]
                 ELSE [R EXCEPT !.invoked = Append(@, [name |-> metadata.name,
                                                       type |-> metadata.type,
                                                       packetType |-> packet.packetType,
                                                       actor |-> actor])]

----------------------------------------------------------------------------
(* State *)

VARIABLES
    driver,     \* [Drivers -> driver record]
    sock,       \* [Drivers -> datagrams waiting in the socket's receive buffer]
    net,        \* bag of datagrams in flight
    drops,      \* datagrams the network has dropped
    dups,       \* datagrams the network has duplicated
    appSends,   \* packets the applications have handed to SendPacket or to the wire
    ticks,      \* [Drivers -> ticks counted by the schedule]
    world,      \* [Drivers -> the process's World]
    repl,       \* the server's ReplicationManager
    alloc,      \* [ConnIds -> address of the server's NetConnection object, 0 when freed]
    rpc,        \* [Drivers -> the process's RPCManager]
    property    \* a ReplicatedProperty with its bound variable, and what was done to it

vars == << driver, sock, net, drops, dups, appSends, ticks, world, repl, alloc, rpc, property >>

\* The actor registry, the replication engine, the heap, the RPC managers and
\* the property.
game == << world, repl, alloc, rpc, property >>

Init ==
    /\ driver = [d \in Drivers |->
                    IF d = Server
                    THEN NewDriver("Server", DEFAULT_MAX_CONNECTIONS)
                    ELSE NewDriver("Client", DEFAULT_MAX_CONNECTIONS)]
    /\ sock = [d \in Drivers |-> << >>]
    /\ net = EmptyBag
    /\ drops = 0
    /\ dups = 0
    /\ appSends = 0
    /\ ticks = [d \in Drivers |-> 0]
    /\ world = [d \in Drivers |-> NewWorld]
    /\ repl = NewReplicationManager
    /\ alloc = [id \in ConnIds |-> 0]
    /\ rpc = [d \in Drivers |-> NewRPCManager]
    /\ property = [p |-> NewProperty(<< >>, Bool, << >>), op |-> "none", cached |-> FALSE]

\* Driver d ends a step as D with receive buffers buffers; the datagrams it
\* handed to send-to enter the network, or (direct) reach the peer's socket
\* at once and in order.
Step(d, D, buffers, direct) ==
    LET
        \* The model's bounds on a driver: an operation that would exceed them is not taken.
        Bounded(D1) ==
            /\ D1.created <= MaxConnIds
            /\ D1.connectCalls <= MaxConnectCalls
            /\ \A i \in DOMAIN D1.m_connections :
                  D1.m_connections[i].m_outgoingSequence <= MaxSeq
        RECURSIVE InFlight(_, _, _)
        InFlight(bag, src, tx) ==
            IF tx = << >>
            THEN bag
            ELSE InFlight(bag (+) SetToBag({[src |-> src, dst |-> Head(tx).dst,
                                             data |-> Head(tx).data]}),
                          src, Tail(tx))
        RECURSIVE Arrived(_, _, _)
        Arrived(buffers1, src, tx) ==
            IF tx = << >>
            THEN buffers1
            ELSE Arrived([buffers1 EXCEPT ![Head(tx).dst] =
                              Append(@, [src |-> src, data |-> Head(tx).data])],
                         src, Tail(tx))
    IN
        \E after \in {D} :
            /\ Bounded(after)
            /\ driver' = [driver EXCEPT ![d] = [after EXCEPT !.tx = << >>]]
            /\ IF direct
               THEN sock' = Arrived(buffers, d, after.tx) /\ net' = net
               ELSE sock' = buffers /\ net' = InFlight(net, d, after.tx)

TotalQueued(D) ==
    LET RECURSIVE Sum(_)
        Sum(i) == IF i = 0 THEN 0
                  ELSE Len(D.m_connections[i].m_outgoingQueue) + Sum(i - 1)
    IN  Sum(Len(D.m_connections))

----------------------------------------------------------------------------
(* Operations *)

\* The application calls NetDriver::ConnectToServer.
AppConnectToServer(c, direct) ==
    /\ Step(c, ConnectToServer(driver[c], Server), sock, direct)
    /\ UNCHANGED << drops, dups, appSends >>

\* The application calls NetDriver::SendPacket on one of its connections.
AppSendPacket(d, connection, kind, reliable, direct) ==
    /\ appSends < MaxAppSends
    /\ connection \in SeqToSet(driver[d].m_connectionList)
    /\ Step(d, NetDriver_SendPacket(driver[d], connection, MakePacket(kind), reliable),
            sock, direct)
    /\ appSends' = appSends + 1
    /\ UNCHANGED << drops, dups >>

\* The application calls NetDriver::DisconnectClient on one of its connections.
AppDisconnectClient(d, connection, direct) ==
    /\ connection \in SeqToSet(driver[d].m_connectionList)
    /\ Step(d, DisconnectClient(driver[d], connection), sock, direct)
    /\ UNCHANGED << drops, dups, appSends >>

\* NetDriver::Tick, one iteration of the receive loop: receive-from returned
\* the datagram at the head of the socket's buffer.
ReceiveDatagram(d, direct) ==
    /\ sock[d] # << >>
    /\ Step(d, ReceiveIteration(driver[d], Head(sock[d]).src, Head(sock[d]).data),
            [sock EXCEPT ![d] = Tail(@)], direct)
    /\ UNCHANGED << drops, dups, appSends >>

\* NetDriver::Tick once receive-from reports no more datagrams: the clocks
\* advance, the queues are flushed and (server) time-outs are swept.
TickRest(d, deltaTime, room, direct) ==
    /\ sock[d] = << >>
    /\ deltaTime > 0 =>
          \A i \in DOMAIN driver[d].m_connections :
              driver[d].m_connections[i].m_currentTime + deltaTime <= MaxTime
    /\ room \in 0..TotalQueued(driver[d])
    /\ Step(d, TickAfterReceive(driver[d], deltaTime, room), sock, direct)
    /\ UNCHANGED << drops, dups, appSends >>

\* The network delivers a datagram to its destination's socket.
Deliver(dg) ==
    /\ BagIn(dg, net)
    /\ net' = net (-) SetToBag({dg})
    /\ sock' = [sock EXCEPT ![dg.dst] = Append(@, [src |-> dg.src, data |-> dg.data])]
    /\ UNCHANGED << driver, drops, dups, appSends >>

\* The network loses a datagram.
Drop(dg) ==
    /\ BagIn(dg, net)
    /\ drops < MaxDrops
    /\ net' = net (-) SetToBag({dg})
    /\ drops' = drops + 1
    /\ UNCHANGED << driver, sock, dups, appSends >>

\* The network delivers a copy of a datagram and keeps the datagram in flight.
Duplicate(dg) ==
    /\ BagIn(dg, net)
    /\ dups < MaxDups
    /\ sock' = [sock EXCEPT ![dg.dst] = Append(@, [src |-> dg.src, data |-> dg.data])]
    /\ dups' = dups + 1
    /\ UNCHANGED << driver, net, drops, appSends >>

----------------------------------------------------------------------------
(* Spec: the server and one client over a network that delays, reorders,    *)
(* drops and duplicates datagrams, with a socket that may report            *)
(* would-block.  Frames are far shorter than a second: the clocks stand     *)
(* still and a connection is removed by DisconnectClient or by a received   *)
(* Disconnect.                                                              *)

Next ==
    \/ AppConnectToServer("c1", FALSE) /\ UNCHANGED << ticks, game >>
    \/ \E d \in {Server, "c1"}, id \in ConnIds, kind \in AppKinds, reliable \in BOOLEAN :
          AppSendPacket(d, id, kind, reliable, FALSE) /\ UNCHANGED << ticks, game >>
    \/ \E d \in {Server, "c1"}, id \in ConnIds :
          AppDisconnectClient(d, id, FALSE) /\ UNCHANGED << ticks, game >>
    \/ \E d \in {Server, "c1"} : ReceiveDatagram(d, FALSE) /\ UNCHANGED << ticks, game >>
    \/ \E d \in {Server, "c1"}, room \in 0..(MaxSeq * MaxConnIds) :
          TickRest(d, 0, room, FALSE) /\ UNCHANGED << ticks, game >>
    \/ \E dg \in BagToSet(net) : Deliver(dg) /\ UNCHANGED << ticks, game >>
    \/ \E dg \in BagToSet(net) : Drop(dg) /\ UNCHANGED << ticks, game >>
    \/ \E dg \in BagToSet(net) : Duplicate(dg) /\ UNCHANGED << ticks, game >>

Spec == Init /\ [][Next]_vars

Conns(d) == SeqToSet(driver[d].m_connections)

BufferKeys(c) == {q.sequence : q \in c.m_reliableBuffer}

----------------------------------------------------------------------------
(* C2: on every connection the n-th packet passed to SendPacket carries    *)
(* sequence n-1, the next sequence equals the number of packets stamped so *)
(* far, and the sequences in the outgoing FIFO rise by exactly 1.          *)
SequenceStamping ==
    \A d \in Drivers : \A c \in Conns(d) :
        /\ c.m_outgoingSequence = Len(c.sent)
        /\ \A n \in DOMAIN c.sent : c.sent[n].sequence = n - 1
        /\ \A i \in 1..(Len(c.m_outgoingQueue) - 1) :
              c.m_outgoingQueue[i + 1].sequence = c.m_outgoingQueue[i].sequence + 1

\* A connection has stamped a reliable packet, an unreliable one and an
\* acknowledgement, and two packets wait in its FIFO.
SequenceStampingWitness ==
    \E d \in Drivers : \E c \in Conns(d) :
        /\ Len(c.sent) = 3
        /\ \E n \in DOMAIN c.sent : c.sent[n].packetType = Acknowledgement
        /\ \E n \in DOMAIN c.sent : c.sent[n].reliable
        /\ \E n \in DOMAIN c.sent :
              ~c.sent[n].reliable /\ c.sent[n].packetType # Acknowledgement
        /\ Len(c.m_outgoingQueue) >= 2

----------------------------------------------------------------------------
(* C3 as claimed: once a connection has received an Acknowledgement whose  *)
(* payload is s, its retention map never again contains s.                 *)
AckedNeverRetained ==
    \A d \in Drivers : \A c \in Conns(d) :
        \A a \in c.acked : a.sequence \notin BufferKeys(c)

(* C3 as amended: once a connection has received an Acknowledgement for a  *)
(* sequence s it had already assigned (s below its next outgoing sequence  *)
(* at that moment), its retention map never again contains s.              *)
AckedAssignedNeverRetained ==
    \A d \in Drivers : \A c \in Conns(d) :
        \A a \in c.acked : a.sequence < a.next => a.sequence \notin BufferKeys(c)

\* A connection has received the acknowledgement of a reliable packet it sent.
AckedAssignedWitness ==
    \E d \in Drivers : \E c \in Conns(d) : \E a \in c.acked :
        /\ a.sequence < a.next
        /\ c.sent[a.sequence + 1].reliable

----------------------------------------------------------------------------
\* The datagram that the next receive-from of d returns, deserialized.
Incoming(d) == Packet_Deserialize(Head(sock[d]).data)

(* C4: after every step, each packet a connection sent with reliable=true  *)
(* and for which no acknowledgement has arrived is in the retention map    *)
(* under its sequence, queued or flushed; and an entry leaves the map of a  *)
(* connection that still exists only in a step that receives an            *)
(* Acknowledgement of its sequence from the peer.                          *)
RetainedUntilAcked ==
    [][LET
           Unacked(c) ==
               {n \in DOMAIN c.sent :
                   c.sent[n].reliable /\ \A a \in c.acked : a.sequence # c.sent[n].sequence}
           \* This step is d's receive-loop iteration for an Acknowledgement of s from
           \* the peer of connection c.
           AckArrives(d, c, s) ==
               /\ sock[d] # << >>
               /\ sock'[d] = Tail(sock[d])
               /\ Head(sock[d]).src = c.m_address
               /\ Incoming(d).ok
               /\ Incoming(d).packet.packetType = Acknowledgement
               /\ ReadUInt32(Incoming(d).packet.payload) = s
       IN
          \A d \in Drivers :
             /\ \A c \in Conns(d)' : \A n \in Unacked(c) :
                   \E q \in c.m_reliableBuffer :
                       /\ q.sequence = c.sent[n].sequence
                       /\ q.packetType = c.sent[n].packetType
             /\ \A c \in Conns(d) : \A c2 \in Conns(d)' :
                   c2.id = c.id =>
                       \A q \in c.m_reliableBuffer \ c2.m_reliableBuffer :
                           AckArrives(d, c, q.sequence)]_vars

\* A reliable application packet has left the FIFO, is not acknowledged and
\* is retained.
RetainedAfterFlushWitness ==
    LET
        Unacked(c) ==
            {n \in DOMAIN c.sent :
                c.sent[n].reliable /\ \A a \in c.acked : a.sequence # c.sent[n].sequence}
    IN
        \E d \in Drivers : \E c \in Conns(d) : \E n \in Unacked(c) :
            /\ c.sent[n].packetType \in AppKinds
            /\ \A i \in DOMAIN c.m_outgoingQueue :
                  c.m_outgoingQueue[i].sequence # c.sent[n].sequence
            /\ c.sent[n].sequence \in BufferKeys(c)

----------------------------------------------------------------------------
(* C5 as claimed: every receive-loop iteration whose datagram deserializes  *)
(* to a packet that is neither an Acknowledgement nor a Heartbeat appends   *)
(* exactly one Acknowledgement of the packet's sequence to the FIFO of a    *)
(* connection to the sender.                                                *)
EveryOtherKindAcked ==
    [][LET
           AckFor(sequence) ==
               [packetType |-> Acknowledgement, payload |-> WriteUInt32(sequence)]
           \* The outgoing FIFO that connection id of driver record D holds (empty when
           \* D has no such connection).
           QueueOf(D, id) == IF HasConn(D, id) THEN ConnOf(D, id).m_outgoingQueue ELSE << >>
       IN
          \A d \in Drivers :
             ( /\ ReceiveDatagram(d, FALSE)
               /\ Incoming(d).ok
               /\ Incoming(d).packet.packetType \notin {Acknowledgement, Heartbeat} )
             => \E c2 \in Conns(d)' :
                   /\ c2.m_address = Head(sock[d]).src
                   /\ Len(c2.m_outgoingQueue) = Len(QueueOf(driver[d], c2.id)) + 1
                   /\ SubSeq(c2.m_outgoingQueue, 1, Len(c2.m_outgoingQueue) - 1)
                         = QueueOf(driver[d], c2.id)
                   /\ LET last == c2.m_outgoingQueue[Len(c2.m_outgoingQueue)]
                      IN  [packetType |-> last.packetType, payload |-> last.payload]
                             = AckFor(Incoming(d).packet.sequence)]_vars

----------------------------------------------------------------------------
(* CapacitySpec: a server initialised with maxConnections 1 or 2 and two    *)
(* clients; connection requests travel over a network that delays,          *)
(* reorders, drops and duplicates them, and the server application may      *)
(* disconnect a client.                                                     *)

CapacityInit ==
    /\ \E n \in 1..MaxCapacity :
          driver = [d \in Drivers |->
                       IF d = Server
                       THEN NewDriver("Server", n)
                       ELSE NewDriver("Client", DEFAULT_MAX_CONNECTIONS)]
    /\ sock = [d \in Drivers |-> << >>]
    /\ net = EmptyBag
    /\ drops = 0
    /\ dups = 0
    /\ appSends = 0
    /\ ticks = [d \in Drivers |-> 0]
    /\ world = [d \in Drivers |-> NewWorld]
    /\ repl = NewReplicationManager
    /\ alloc = [id \in ConnIds |-> 0]
    /\ rpc = [d \in Drivers |-> NewRPCManager]
    /\ property = [p |-> NewProperty(<< >>, Bool, << >>), op |-> "none", cached |-> FALSE]

CapacityNext ==
    \/ \E c \in Clients : AppConnectToServer(c, FALSE) /\ UNCHANGED << ticks, game >>
    \/ \E id \in ConnIds : AppDisconnectClient(Server, id, FALSE) /\ UNCHANGED << ticks, game >>
    \/ \E d \in Drivers : ReceiveDatagram(d, FALSE) /\ UNCHANGED << ticks, game >>
    \/ \E d \in Drivers :
          TickRest(d, 0, TotalQueued(driver[d]), FALSE) /\ UNCHANGED << ticks, game >>
    \/ \E dg \in BagToSet(net) : Deliver(dg) /\ UNCHANGED << ticks, game >>
    \/ \E dg \in BagToSet(net) : Drop(dg) /\ UNCHANGED << ticks, game >>
    \/ \E dg \in BagToSet(net) : Duplicate(dg) /\ UNCHANGED << ticks, game >>

CapacitySpec == CapacityInit /\ [][CapacityNext]_vars

AcceptsSent(c) ==
    Cardinality({n \in DOMAIN c.sent : c.sent[n].packetType = ConnectionAccept})

(* C8: the server holds at most one connection per peer address, and for   *)
(* every connection it holds it has invoked on-connect exactly once and    *)
(* enqueued exactly one ConnectionAccept, however many ConnectionRequest   *)
(* datagrams the address has sent.                                         *)
OneConnectionPerPeer ==
    /\ \A a \in Drivers :
          Cardinality({i \in DOMAIN driver[Server].m_connections :
                          driver[Server].m_connections[i].m_address = a}) <= 1
    /\ \A c \in Conns(Server) :
          /\ driver[Server].onConnection[c.id] = 1
          /\ AcceptsSent(c) = 1

\* The server has handled two ConnectionRequests of c1 and has created one
\* connection, which it holds.
RepeatedRequestWitness ==
    /\ driver[Server].requests["c1"] = 2
    /\ driver[Server].created = 1
    /\ \E c \in Conns(Server) : c.m_address = "c1"

(* C9: the server never holds more than maxConnections connections, and a  *)
(* ConnectionRequest of an unknown peer at capacity puts one               *)
(* ConnectionDenied datagram for that peer on the wire and changes neither *)
(* the connections nor the callback counts.                                *)
CapacityRespected ==
    [][LET
           \* This step is the server's receive-loop iteration for a ConnectionRequest
           \* of a peer it holds no connection for, at capacity.
           RequestAtCapacity ==
               /\ ReceiveDatagram(Server, FALSE)
               /\ Incoming(Server).ok
               /\ Incoming(Server).packet.packetType = ConnectionRequest
               /\ \A c \in Conns(Server) : c.m_address # Head(sock[Server]).src
               /\ Len(driver[Server].m_connections) >= driver[Server].m_maxConnections
       IN
          /\ Len(driver'[Server].m_connections) <= driver'[Server].m_maxConnections
          /\ RequestAtCapacity =>
                /\ net' = net (+) SetToBag({[src |-> Server,
                                            dst |-> Head(sock[Server]).src,
                                            data |-> Packet_Serialize(
                                                        MakePacket(ConnectionDenied))]})
                /\ driver'[Server].m_connections = driver[Server].m_connections
                /\ driver'[Server].m_connectionList = driver[Server].m_connectionList
                /\ driver'[Server].created = driver[Server].created
                /\ driver'[Server].onConnection = driver[Server].onConnection]_vars

\* The server is at capacity and a ConnectionDenied datagram is on its way to
\* c2, for which the server holds no connection.
DeniedWitness ==
    /\ Len(driver[Server].m_connections) = driver[Server].m_maxConnections
    /\ driver[Server].created = driver[Server].m_maxConnections
    /\ \A c \in Conns(Server) : c.m_address # "c2"
    /\ \E dg \in BagToSet(net) :
          /\ dg.dst = "c2"
          /\ Packet_Deserialize(dg.data).packet.packetType = ConnectionDenied

----------------------------------------------------------------------------
(* TimeoutSpec: the server and two clients over a network that delays and   *)
(* reorders; the server's frames last 0, 15 or 16 seconds, so that a        *)
(* connection is swept with exactly 30 and with 31 seconds since its last   *)
(* received packet; the clients' packets refresh that time.                 *)

TimeoutNext ==
    \/ \E c \in Clients : AppConnectToServer(c, FALSE) /\ UNCHANGED << ticks, game >>
    \/ \E c \in Clients, id \in ConnIds, kind \in AppKinds :
          AppSendPacket(c, id, kind, FALSE, FALSE) /\ UNCHANGED << ticks, game >>
    \/ \E d \in Drivers : ReceiveDatagram(d, FALSE) /\ UNCHANGED << ticks, game >>
    \/ \E deltaTime \in DeltaTimes :
          /\ TickRest(Server, deltaTime, TotalQueued(driver[Server]), FALSE)
          /\ UNCHANGED << ticks, game >>
    \/ \E c \in Clients :
          TickRest(c, 0, TotalQueued(driver[c]), FALSE) /\ UNCHANGED << ticks, game >>
    \/ \E dg \in BagToSet(net) : Deliver(dg) /\ UNCHANGED << ticks, game >>

TimeoutSpec == Init /\ [][TimeoutNext]_vars

(* C10: a server tick removes exactly the connections whose last received  *)
(* packet is more than 30 seconds old at the sweep and invokes             *)
(* on-disconnect exactly once for each of them; a connection with 30       *)
(* seconds or less stays, with no on-disconnect, and no other step removes *)
(* a connection.                                                           *)
TimeoutSweep ==
    [][LET
           \* This step is a server tick of deltaTime seconds after which more than 30
           \* seconds have passed since connection c last received a packet.
           SweptAfter(c, deltaTime) ==
               /\ TickRest(Server, deltaTime, TotalQueued(driver[Server]), FALSE)
               /\ c.m_currentTime + deltaTime - c.m_lastReceiveTime > 30
       IN
          \A c \in Conns(Server) :
             IF \E deltaTime \in DeltaTimes : SweptAfter(c, deltaTime)
             THEN /\ ~HasConn(driver'[Server], c.id)
                  /\ driver'[Server].onDisconnection[c.id] = 1
             ELSE /\ HasConn(driver'[Server], c.id)
                  /\ driver'[Server].onDisconnection[c.id] = 0]_vars

\* One connection has been swept and another one, whose last received
\* packet is exactly 30 seconds old, has been ticked and is kept.
TimeoutBoundaryWitness ==
    /\ \E id \in ConnIds :
          /\ driver[Server].onDisconnection[id] = 1
          /\ ~HasConn(driver[Server], id)
    /\ \E c \in Conns(Server) :
          /\ c.m_currentTime - c.m_lastReceiveTime = 30
          /\ c.m_lastReceiveTime > 0

----------------------------------------------------------------------------
(* LockstepSpec: the server and client c1 on a network that neither loses   *)
(* nor reorders nor delays: a datagram handed to send-to is in the peer's   *)
(* socket at once.  Both drivers keep ticking, neither more than one tick   *)
(* ahead of the other; ticks counts each driver's ticks since               *)
(* ConnectToServer up to MaxTicks, and beyond MaxTicks keeps only which     *)
(* driver is a tick ahead.  A tick's receive loop is the ReceiveDatagram    *)
(* steps before its TickRest.  The applications may send packets of their   *)
(* own on their connections.                                                *)

Pair == {Server, "c1"}

\* A step that takes the head off d's socket: a receive-loop iteration of d.
Drains(d) ==
    /\ sock[d] # << >>
    /\ sock' = [sock EXCEPT ![d] = Tail(@)]

LockstepConnect ==
    /\ AppConnectToServer("c1", TRUE)
    /\ ticks' = [d \in Drivers |-> 0]
    /\ UNCHANGED game

LockstepSend(d) ==
    \E id \in ConnIds, kind \in AppKinds, reliable \in BOOLEAN :
        /\ AppSendPacket(d, id, kind, reliable, TRUE)
        /\ UNCHANGED << ticks, game >>

LockstepReceive(d) ==
    /\ ReceiveDatagram(d, TRUE)
    /\ UNCHANGED << ticks, game >>

LockstepTick(d) ==
    LET
        Counted(t, d1) ==
            LET u == [t EXCEPT ![d1] = @ + 1]
            IN  IF \A e \in Pair : u[e] > MaxTicks
                THEN [e \in Drivers |-> IF e \in Pair THEN MaxTicks ELSE u[e]]
                ELSE u
    IN
        /\ \A e \in Pair : ticks[d] <= ticks[e]
        /\ \E deltaTime \in IF d = Server THEN DeltaTimes ELSE {0} :
              TickRest(d, deltaTime, TotalQueued(driver[d]), TRUE)
        /\ ticks' = Counted(ticks, d)
        /\ UNCHANGED game

LockstepNext ==
    \/ LockstepConnect
    \/ \E d \in Pair : LockstepSend(d)
    \/ \E d \in Pair : LockstepReceive(d)
    \/ \E d \in Pair : LockstepTick(d)

LockstepSpec ==
    /\ Init
    /\ [][LockstepNext]_vars
    /\ \A d \in Pair : WF_vars(LockstepTick(d))
    /\ \A d \in Pair : WF_sock(Drains(d))

ServerConnection(c) == ConnOf(driver[c], driver[c].m_serverConnection)

(* C6: once the client has ticked 10 times after ConnectToServer, with the *)
(* server ticking in step on a lossless in-order network, the client's     *)
(* server connection is in state Connected.                                *)
ConnectedWithinTenTicks ==
    (driver["c1"].connectCalls = 1 /\ ticks["c1"] >= 10) =>
        /\ driver["c1"].m_serverConnection # NullConn
        /\ ServerConnection("c1").m_state = "Connected"

\* The client has called ConnectToServer, has ticked 10 times since and its
\* server connection is Connected through one on-connect callback.
ConnectedWitness ==
    /\ driver["c1"].connectCalls = 1
    /\ ticks["c1"] = 10
    /\ ticks[Server] = 10
    /\ ServerConnection("c1").m_state = "Connected"
    /\ driver["c1"].onConnection[driver["c1"].m_serverConnection] = 1

\* The handshake has succeeded: the server holds a connection for c1 on which
\* it sent the ConnectionAccept, and c1's server connection is Connected.
HandshakeDone ==
    /\ \E c \in Conns(Server) : c.m_address = "c1" /\ AcceptsSent(c) = 1
    /\ driver["c1"].m_serverConnection # NullConn
    /\ ServerConnection("c1").m_state = "Connected"

RetainsAccept(c) ==
    \E q \in c.m_reliableBuffer : q.packetType = ConnectionAccept

(* C7 as claimed: after a successful handshake the retention map of the    *)
(* server's connection for the client eventually no longer contains the    *)
(* ConnectionAccept it sent.                                               *)
AcceptEventuallyReleased ==
    HandshakeDone ~>
        (\E c \in Conns(Server) :
            c.m_address = "c1" /\ AcceptsSent(c) = 1 /\ ~RetainsAccept(c))

(* C40 as claimed: no step removes from the server the connection of a     *)
(* client that is Connected and keeps ticking on the lossless network,     *)
(* however long the applications stay silent.                              *)
LiveClientNeverTimedOut ==
    [][\A c \in Conns(Server) :
          ( /\ c.m_address = "c1"
            /\ driver["c1"].m_serverConnection # NullConn
            /\ ServerConnection("c1").m_state = "Connected" )
              => HasConn(driver'[Server], c.id)]_vars

(* C33: a receive-loop iteration for an Acknowledgement or a Heartbeat     *)
(* enqueues nothing on any connection of the receiver; no retention map    *)
(* ever holds an Acknowledgement; and on the lossless network with both    *)
(* drivers ticking, from some point on every outgoing queue stays empty    *)
(* (the applications send a bounded number of packets).                    *)
AcksEndTheExchange ==
    /\ [][\A d \in Pair :
             (/\ LockstepReceive(d)
              /\ Incoming(d).ok
              /\ Incoming(d).packet.packetType \in {Acknowledgement, Heartbeat})
             => /\ Len(driver'[d].m_connections) = Len(driver[d].m_connections)
                /\ \A i \in DOMAIN driver[d].m_connections :
                      /\ driver'[d].m_connections[i].m_outgoingQueue
                             = driver[d].m_connections[i].m_outgoingQueue
                      /\ driver'[d].m_connections[i].sent = driver[d].m_connections[i].sent
                      /\ driver'[d].m_connections[i].m_reliableBuffer
                             \subseteq driver[d].m_connections[i].m_reliableBuffer
                /\ sock' = [sock EXCEPT ![d] = Tail(@)]]_vars
    /\ [](\A d \in Pair : \A c \in Conns(d) : \A q \in c.m_reliableBuffer :
             q.packetType # Acknowledgement)
    /\ <>[](\A d \in Pair : \A c \in Conns(d) : c.m_outgoingQueue = << >>)

\* Acknowledgements have been received on both sides, the applications have
\* sent all they send, and every queue is empty.
AckExchangeOverWitness ==
    /\ appSends = MaxAppSends
    /\ \A d \in Pair : \E c \in Conns(d) : c.acked # {}
    /\ \A d \in Pair : \A c \in Conns(d) : c.m_outgoingQueue = << >>
    /\ \A d \in Pair : sock[d] = << >>

----------------------------------------------------------------------------
(* LossySpec: the server and client c1 over a network that delays and       *)
(* reorders datagrams and drops at most MaxDrops of them; every datagram    *)
(* it does not drop is eventually delivered, both drivers keep ticking and  *)
(* draining their sockets (ticks holds the parity of each driver's tick     *)
(* count), and no connection is removed.  The applications send reliable    *)
(* packets on Connected connections.                                        *)

LossySend(d) ==
    \E id \in ConnIds, kind \in AppKinds :
        /\ HasConn(driver[d], id)
        /\ ConnOf(driver[d], id).m_state = "Connected"
        /\ AppSendPacket(d, id, kind, TRUE, FALSE)
        /\ UNCHANGED << ticks, game >>

LossyReceive(d) == ReceiveDatagram(d, FALSE) /\ UNCHANGED << ticks, game >>

LossyTick(d) ==
    /\ TickRest(d, 0, TotalQueued(driver[d]), FALSE)
    /\ ticks' = [ticks EXCEPT ![d] = 1 - @]
    /\ UNCHANGED game

LossyDeliver == \E dg \in BagToSet(net) : Deliver(dg) /\ UNCHANGED << ticks, game >>

LossyNext ==
    \/ AppConnectToServer("c1", FALSE) /\ UNCHANGED << ticks, game >>
    \/ \E d \in Pair : LossySend(d)
    \/ \E d \in Pair : LossyReceive(d)
    \/ \E d \in Pair : LossyTick(d)
    \/ LossyDeliver
    \/ \E dg \in BagToSet(net) : Drop(dg) /\ UNCHANGED << ticks, game >>

LossySpec ==
    /\ Init
    /\ [][LossyNext]_vars
    /\ \A d \in Pair : WF_vars(LossyTick(d))
    /\ \A d \in Pair : WF_sock(Drains(d))
    /\ WF_vars(LossyDeliver)

\* Driver d has handed an application packet to SendPacket with reliable set,
\* and it was stamped sequence s.
SentReliable(d, s) ==
    \E c \in Conns(d) :
        /\ s + 1 \in DOMAIN c.sent
        /\ c.sent[s + 1].reliable
        /\ c.sent[s + 1].packetType \in AppKinds

\* The peer of d has passed an application packet of sequence s to its
\* on-packet callback.
PassedToOnPacket(d, s) ==
    \E e \in Pair \ {d} : \E x \in driver[e].onPacket :
        x.sequence = s /\ x.packetType \in AppKinds

(* C1 as claimed: every application packet handed to SendPacket with       *)
(* reliable set on a connection that stays up is eventually passed to the  *)
(* peer's on-packet callback, although the network drops a datagram.       *)
ReliableEventuallyDelivered ==
    \A d \in Pair : \A s \in 0..MaxSeq :
        SentReliable(d, s) ~> PassedToOnPacket(d, s)


----------------------------------------------------------------------------
(* C11 as claimed: every step in which a driver disconnects one of its     *)
(* connections locally (DisconnectClient) hands a Disconnect datagram       *)
(* addressed to that connection's peer to the socket's send-to: one more    *)
(* such datagram is in flight after the step than before it.                *)
DisconnectHandedToSocket ==
    [][LET
           \* The Disconnect datagrams from d to address among the datagrams in flight.
           DisconnectsInFlight(bag, d, address) ==
               {dg \in BagToSet(bag) :
                   /\ dg.src = d
                   /\ dg.dst = address
                   /\ Packet_Deserialize(dg.data).ok
                   /\ Packet_Deserialize(dg.data).packet.packetType = Disconnect}
       IN
          \A d \in {Server, "c1"} : \A id \in ConnIds :
             AppDisconnectClient(d, id, FALSE)
             => \E dg \in DisconnectsInFlight(net', d, ConnOf(driver[d], id).m_address) :
                   CopiesIn(dg, net') = CopiesIn(dg, net) + 1]_vars


----------------------------------------------------------------------------
(* OversizeSpec: hosts put well-formed datagrams of the maximum size and    *)
(* beyond on the wire to the server, next to a client that connects; every  *)
(* datagram arrives whole (it fits the receive buffer of ReceivePackets).   *)

DatagramSizes == {MAX_PACKET_SIZE, MAX_PACKET_SIZE + 1, MaxDatagram}

\* A datagram of size bytes with valid magic: the header of a packet of the
\* given kind and sequence, followed by its payload.
Synthesize(kind, sequence, size) ==
    Packet_Serialize([packetType |-> kind, sequence |-> sequence,
                      payload |-> Padding(size - 12)])

\* receive-from on the server's socket will return a synthesized datagram
\* from host from.
Arrive(from, kind, sequence, size) ==
    /\ appSends < MaxAppSends
    /\ sock' = [sock EXCEPT ![Server] =
                   Append(@, [src |-> from, data |-> Synthesize(kind, sequence, size)])]
    /\ appSends' = appSends + 1
    /\ UNCHANGED << driver, net, drops, dups >>

OversizeNext ==
    \/ AppConnectToServer("c1", TRUE) /\ UNCHANGED << ticks, game >>
    \/ LET Request == Packet_Serialize(MakePacket(ConnectionRequest))
           Update == Packet_Serialize([MakePacket(ActorReplication) EXCEPT
                                          !.payload = << 1, 0, 0, 0, 0 >>])
           \* Datagrams cut short, with a wrong magic, or with a payloadSize field
           \* that is not the number of bytes after the header.
           Malformed ==
               {SubSeq(Request, 1, n) : n \in {1, 3, 4, 8, 10, 11}}
                   \cup {SubSeq(Update, 1, n) : n \in {11, 12, 14, 16}}
                   \cup {<< 0 >> \o Tail(Request), << 0 >> \o Tail(Update),
                         Update \o << 7 >>}
       IN  \E from \in Clients, data \in Malformed :
               /\ appSends < MaxAppSends
               /\ sock' = [sock EXCEPT ![Server] = Append(@, [src |-> from, data |-> data])]
               /\ appSends' = appSends + 1
               /\ UNCHANGED << driver, net, drops, dups, ticks, game >>
    \/ \E from \in Clients, size \in DatagramSizes, sequence \in {0},
          kind \in {ConnectionRequest, Disconnect, Heartbeat, ActorReplication} :
          Arrive(from, kind, sequence, size) /\ UNCHANGED << ticks, game >>
    \/ \E d \in {Server, "c1"} : ReceiveDatagram(d, TRUE) /\ UNCHANGED << ticks, game >>
    \/ \E d \in {Server, "c1"} : TickRest(d, 0, TotalQueued(driver[d]), TRUE) /\ UNCHANGED << ticks, game >>

OversizeSpec == Init /\ [][OversizeNext]_vars

(* C12 as claimed: a receive-loop iteration of the server for a datagram    *)
(* longer than 1024 bytes drops it without processing: the driver is as     *)
(* before (no connection created or mutated, no acknowledgement enqueued,   *)
(* no callback invoked) and nothing is handed to send-to.                   *)
OversizeDropped ==
    [][( /\ ReceiveDatagram(Server, TRUE)
         /\ Len(Head(sock[Server]).data) > MAX_PACKET_SIZE )
       => /\ driver'[Server] = driver[Server]
          /\ sock' = [sock EXCEPT ![Server] = Tail(@)]]_vars


(* C27 as claimed: a receive-loop iteration of the server for a datagram   *)
(* shorter than the 12-byte header, or whose payloadSize field is larger   *)
(* than the number of bytes after the header, drops it: no connection is   *)
(* created, changed or removed, no callback runs, nothing is sent.         *)
ShortDatagramDropped ==
    [][( /\ ReceiveDatagram(Server, TRUE)
         /\ LET data == Head(sock[Server]).data
            IN  \/ Len(data) < 12
                \/ ReadUInt(data, 10, 2).value > Len(data) - 12 )
       => /\ [driver'[Server] EXCEPT !.failed = {}] = [driver[Server] EXCEPT !.failed = {}]
          /\ sock' = [sock EXCEPT ![Server] = Tail(@)]]_vars

(* C28: a receive-loop iteration of the server for a datagram whose first  *)
(* four bytes, read as a little-endian u32, are not the magic, or that has *)
(* fewer than four bytes, fails to deserialize and is dropped: no          *)
(* connection is created or changed, no callback runs, nothing is sent.    *)
BadMagicDropped ==
    [][( /\ ReceiveDatagram(Server, TRUE)
         /\ LET data == Head(sock[Server]).data
            IN  \/ Len(data) < 4
                \/ ReadUInt32(data) # PACKET_MAGIC )
       => /\ ~Incoming(Server).ok
          /\ [driver'[Server] EXCEPT !.failed = {}] = [driver[Server] EXCEPT !.failed = {}]
          /\ "Invalid packet magic number" \in driver'[Server].failed
          /\ sock' = [sock EXCEPT ![Server] = Tail(@)]]_vars

\* A datagram with a wrong magic was dropped while the server holds a
\* connection.
BadMagicWitness ==
    /\ "Invalid packet magic number" \in driver[Server].failed
    /\ driver[Server].m_connectionList # << >>


(* C31 as claimed: a receive-loop iteration of the server for a Disconnect *)
(* packet from a peer that has a connection removes the connection and     *)
(* invokes on-disconnect once for it, with the connection in state         *)
(* Disconnected when the callback runs; a Disconnect from an address with  *)
(* no connection changes nothing.                                          *)
DisconnectReceived ==
    [][( /\ ReceiveDatagram(Server, TRUE)
         /\ Incoming(Server).ok
         /\ Incoming(Server).packet.packetType = Disconnect )
       => LET connection == FindConnection(driver[Server], Head(sock[Server]).src)
          IN  IF connection = NullConn
              THEN driver'[Server] = driver[Server]
              ELSE /\ ~HasConn(driver'[Server], connection)
                   /\ connection \notin SeqToSet(driver'[Server].m_connectionList)
                   /\ driver'[Server].onDisconnection[connection]
                          = driver[Server].onDisconnection[connection] + 1
                   /\ driver'[Server].seenState[connection] = "Disconnected"]_vars


----------------------------------------------------------------------------
(* WorldSpec: the server's application spawns actors, destroys them by      *)
(* pointer or by id, and runs World::Tick; a tick hook may itself destroy   *)
(* any actor of the world.                                                  *)

WorldStep(d, W) ==
    /\ world' = [world EXCEPT ![d] = W]
    /\ UNCHANGED << driver, sock, net, drops, dups, appSends, ticks, repl, alloc, rpc, property >>

Called(W, call) ==
    LET obj == IF call.op = "DestroyActor" THEN call.actor
               ELSE IF call.op = "DestroyActorById" THEN GetActorByNetId(W, call.netId)
               ELSE NullActor
        after == IF call.op = "DestroyActor" THEN DestroyActor(W, call.actor)
                 ELSE IF call.op = "DestroyActorById" THEN DestroyActorById(W, call.netId)
                 ELSE W
    IN  IF obj = NullActor
        THEN after
        ELSE [after EXCEPT !.calls = @ \cup {[actor |-> obj, cursor |-> W.cursor]}]

\* The application spawns a PlayerActor between frames.
AppSpawnActor(d) ==
    /\ world[d].cursor = 0
    /\ world[d].constructed < MaxActors
    /\ LET r == SpawnActorByType(world[d], PlayerActorName)
       IN  WorldStep(d, r.world)

\* The application destroys an actor between frames.
AppDestroyActor(d, call) ==
    /\ world[d].cursor = 0
    /\ call.op # "none"
    /\ WorldStep(d, Called(world[d], call))

\* World::Tick, the tick hook of the next actor of the iteration list (the
\* first one when the Tick begins).
TickHook(d, call) ==
    LET W == world[d]
        at == IF W.cursor = 0 THEN 1 ELSE W.cursor
        hooked == [W EXCEPT !.cursor = at, !.ticked = @ \cup {W.m_actorList[at]}]
    IN  /\ at <= Len(W.m_actorList)
        /\ WorldStep(d, [Called(hooked, call) EXCEPT !.cursor = at + 1])

\* World::Tick once the loop over the iteration list has ended: the pending
\* destroys are processed and the Tick returns.
TickDestroyPass(d) ==
    LET W == world[d]
    IN  /\ IF W.cursor = 0 THEN W.m_actorList = << >> ELSE W.cursor > Len(W.m_actorList)
        /\ WorldStep(d, [ProcessPendingDestroys(W, 1) EXCEPT
                             !.cursor = 0, !.ticked = {}, !.calls = {}])

WorldNext ==
    LET
        \* What a tick hook (or the application between frames) may ask of the world.
        DestroyCalls(W) ==
            {[op |-> "none"]}
                \cup {[op |-> "DestroyActor", actor |-> obj] : obj \in Owned(W)}
                \cup {[op |-> "DestroyActorById", netId |-> n] : n \in 1..MaxActors}
    IN
        \/ AppSpawnActor(Server)
        \/ \E call \in DestroyCalls(world[Server]) : AppDestroyActor(Server, call)
        \/ \E call \in DestroyCalls(world[Server]) : TickHook(Server, call)
        \/ TickDestroyPass(Server)

WorldSpec == Init /\ [][WorldNext]_vars

(* C20: a step in which an actor leaves the owned set, the id map or the    *)
(* iteration list, or in which a destroy hook runs, is the destroy pass at  *)
(* the end of a World::Tick, taken after the tick hook of every actor of    *)
(* the iteration list has run in that frame; the pass runs the destroy hook *)
(* of exactly the pending actors, in order, and removes exactly them from   *)
(* the three containers.  A destroy call from a tick hook therefore leaves  *)
(* its actor in place until all hooks of the frame have run.                *)
DeferredDestroy ==
    [][LET
           \* The actors the id map of W points to.
           Mapped(W) == {e.actor : e \in W.m_actorsByNetId}
       IN
          LET W == world[Server]
              after == world'[Server]
              pending == SeqToSet(W.m_pendingDestroy)
          IN  ( \/ Owned(W) \ Owned(after) # {}
                \/ Mapped(W) \ Mapped(after) # {}
                \/ SeqToSet(W.m_actorList) \ SeqToSet(after.m_actorList) # {}
                \/ after.onDestroy # W.onDestroy )
              => /\ SeqToSet(W.m_actorList) \subseteq W.ticked
                 /\ after.cursor = 0
                 /\ after.onDestroy = W.onDestroy \o W.m_pendingDestroy
                 /\ Owned(after) = Owned(W) \ pending
                 /\ Mapped(after) = Mapped(W) \ pending
                 /\ after.m_actorList = SelectSeq(W.m_actorList, LAMBDA x : x \notin pending)]_vars

\* The first tick hook of a frame asked to destroy the second actor of the
\* iteration list; that actor's own hook has run since, all hooks of the
\* frame are done, and the actor is still owned, mapped and listed.
DestroyedInTickWitness ==
    LET
        \* The actors the id map of W points to.
        Mapped(W) == {e.actor : e \in W.m_actorsByNetId}
    IN
        LET W == world[Server]
        IN  /\ W.cursor > Len(W.m_actorList)
            /\ Len(W.m_actorList) >= 2
            /\ [actor |-> W.m_actorList[2], cursor |-> 1] \in W.calls
            /\ W.m_actorList[2] \in W.ticked
            /\ W.m_actorList[2] \in Owned(W) \cap Mapped(W)
            /\ W.m_actorList[2] \in SeqToSet(W.m_pendingDestroy)


----------------------------------------------------------------------------
(* ReplSpec: the sample server, which spawns one PlayerActor at start-up,   *)
(* and two clients, on a network that delivers in order and at once but may *)
(* duplicate a datagram to a client.  The server's application changes      *)
(* Health between frames and may disconnect a client; a frame lasts 1/60 or *)
(* 1/30 s; a connection object is allocated at any address no live          *)
(* connection has.                                                          *)

DeltaFrames == {1, 2}

ReplInit ==
    /\ driver = [d \in Drivers |->
                    IF d = Server
                    THEN NewDriver("Server", DEFAULT_MAX_CONNECTIONS)
                    ELSE NewDriver("Client", DEFAULT_MAX_CONNECTIONS)]
    /\ sock = [d \in Drivers |-> << >>]
    /\ net = EmptyBag
    /\ drops = 0
    /\ dups = 0
    /\ appSends = 0
    /\ ticks = [d \in Drivers |-> 0]
    /\ world = [d \in Drivers |->
                   IF d = Server
                   THEN SpawnActorByType(NewWorld, PlayerActorName).world
                   ELSE NewWorld]
    /\ repl = NewReplicationManager
    /\ alloc = [id \in ConnIds |-> 0]
    /\ rpc = [d \in Drivers |-> NewRPCManager]
    /\ property = [p |-> NewProperty(<< >>, Bool, << >>), op |-> "none", cached |-> FALSE]

Live(D) == SeqToSet(D.m_connectionList)

\* The heap after a step that took the server from D0 to D1: a connection
\* object created in the step lies at any address no connection object held
\* before, one destroyed in the step gives its address back.
Reallocated(D0, D1) ==
    \E heap \in [ConnIds -> 0..MaxConnIds] :
        /\ \A id \in ConnIds :
              IF id \notin Live(D1) THEN heap[id] = 0
              ELSE IF id \in Live(D0) THEN heap[id] = alloc[id]
              ELSE heap[id] \in (1..MaxConnIds) \ {alloc[j] : j \in Live(D0)}
        /\ alloc' = heap

\* The clients are interchangeable: c1 names the one that connects first.
ReplConnect(c) ==
    /\ c = "c2" => driver["c1"].connectCalls > 0
    /\ AppConnectToServer(c, TRUE)
    /\ UNCHANGED << ticks, game >>

\* One iteration of the receive loop with the callbacks NetworkManager has
\* installed: on-packet routes to the replication engine, on-connection
\* registers the world's replicating actors on the server, on-disconnection
\* cleans nothing up.
ReplReceive(d) ==
    /\ ReceiveDatagram(d, TRUE)
    /\ world' = [world EXCEPT ![d] =
                    IF PassesToOnPacket(driver[d], Head(sock[d]).src, Head(sock[d]).data)
                    THEN OnPacketReceived(@, Incoming(d).packet)
                    ELSE @]
    /\ repl' = IF d = Server /\ driver'[d].onConnection # driver[d].onConnection
               THEN RegisterActors(repl, world[d], 1)
               ELSE repl
    /\ IF d = Server THEN Reallocated(driver[d], driver'[d]) ELSE alloc' = alloc
    /\ UNCHANGED << ticks, rpc, property >>

\* NetworkManager::Tick of d, after its receive loop.
ReplTick(d, deltaTime) ==
    /\ sock[d] = << >>
    /\ \E G \in {NetworkManager_Tick([driver |-> driver[d], world |-> world[d],
                                      repl |-> repl],
                                     alloc, deltaTime, MaxSeq * MaxConnIds)} :
          /\ Step(d, G.driver, sock, TRUE)
          /\ world' = [world EXCEPT ![d] = G.world]
          /\ repl' = G.repl
    /\ IF d = Server THEN Reallocated(driver[d], driver'[d]) ELSE alloc' = alloc
    /\ UNCHANGED << drops, dups, appSends, ticks, rpc, property >>

\* The server's application assigns Health of its actor between frames.
AppSetHealth(obj, v) ==
    /\ obj \in Owned(world[Server])
    /\ LET actor == ActorOf(world[Server], obj)
           k == FindProperty(actor, HealthName)
       IN  /\ actor.m_replicatedProperties[k].prop.data # WriteUInt32(v)
           /\ world' = [world EXCEPT ![Server] =
                           SetActor(@, obj,
                                    [actor EXCEPT !.m_replicatedProperties[k].prop.data =
                                                      WriteUInt32(v)])]
    /\ UNCHANGED << driver, sock, net, drops, dups, appSends, ticks, repl, alloc, rpc, property >>

ReplDisconnect(id) ==
    /\ AppDisconnectClient(Server, id, TRUE)
    /\ Reallocated(driver[Server], driver'[Server])
    /\ UNCHANGED << ticks, world, repl, rpc, property >>

\* The network duplicates the datagram that d's socket returns next.
DuplicateHead(d) ==
    /\ sock[d] # << >>
    /\ dups < MaxDups
    /\ sock' = [sock EXCEPT ![d] = << Head(@) >> \o @]
    /\ dups' = dups + 1
    /\ UNCHANGED << driver, net, drops, appSends, ticks, game >>

ReplNext ==
    LET
        HealthValues == {InitialHealth, 57}
    IN
        \/ \E c \in Clients : ReplConnect(c)
        \/ \E d \in Drivers : ReplReceive(d)
        \/ \E d \in Drivers, deltaTime \in DeltaFrames : ReplTick(d, deltaTime)
        \/ \E v \in HealthValues : AppSetHealth(1, v)
        \/ \E id \in ConnIds : ReplDisconnect(id)
        \/ \E c \in Clients : DuplicateHead(c)

ReplSpec == ReplInit /\ [][ReplNext]_vars


\* The packets of the given kind that the step enqueues on the server's
\* connection c.
Enqueued(c, kind) ==
    {q \in UNION {SeqToSet(c2.m_outgoingQueue) : c2 \in {x \in Conns(Server)' : x.id = c.id}} :
        q.sequence >= c.m_outgoingSequence /\ q.packetType = kind}

(* C13 as claimed: in every replication burst, for every Connected peer     *)
(* and every replicated property whose value differs from the one the       *)
(* previous burst found, the burst enqueues to that peer an                 *)
(* ActorReplication packet that holds the property's name, kind and new     *)
(* value.                                                                   *)
ChangeReplicatedToEveryPeer ==
    [][LET
           \* This step is a server tick that emits a replication burst.
           BurstStep ==
               \E deltaTime \in DeltaFrames :
                   ReplTick(Server, deltaTime) /\ BurstDue(repl, deltaTime)
           \* Does stream hold bytes as a contiguous run?
           Contains(stream, bytes) ==
               \E at \in 0..(Len(stream) - Len(bytes)) :
                   SubSeq(stream, at + 1, at + Len(bytes)) = bytes
       IN
          BurstStep =>
             \A c \in Conns(Server) : c.m_state = "Connected" =>
                 \A i \in DOMAIN repl.snapshot :
                     LET actor == ActorOf(world[Server], repl.snapshot[i].actor)
                     IN  \A k \in DOMAIN actor.m_replicatedProperties :
                             LET prop == actor.m_replicatedProperties[k].prop
                             IN  prop.data # repl.snapshot[i].data[k]
                                 => \E q \in Enqueued(c, ActorReplication) :
                                       Contains(q.payload,
                                                WriteString(prop.name) \o << prop.type >>
                                                    \o prop.data)]_vars


----------------------------------------------------------------------------
\* The entries of an ActorReplication payload as SendActorUpdate wrote them:
\* left times a name, a kind and a value of that kind, from pos on.
RECURSIVE WrittenEntries(_, _, _)
WrittenEntries(payload, pos, left) ==
    IF left = 0
    THEN {}
    ELSE LET name == ReadString(payload, pos)
             kind == ReadUInt(payload, name.pos, 1)
             value == ReadBytes(payload, kind.pos, FixedWidth[kind.value + 1])
         IN  {[name |-> name.value, kind |-> kind.value, value |-> value.value]}
                 \cup WrittenEntries(payload, value.pos, left - 1)

(* C14 as claimed: when a client processes an ActorReplication packet for   *)
(* an actor it knows, afterwards every property named in the packet holds,  *)
(* on the client's actor, exactly the value the server serialized for it,   *)
(* under the name and kind it was written with.                             *)
UpdateDecodedAsEncoded ==
    [][LET
           \* This step is client c's receive-loop iteration that passes an
           \* ActorReplication packet for an actor of its world to the on-packet
           \* callback.
           UpdateArrives(c) ==
               /\ ReplReceive(c)
               /\ PassesToOnPacket(driver[c], Head(sock[c]).src, Head(sock[c]).data)
               /\ Incoming(c).packet.packetType = ActorReplication
               /\ GetActorByNetId(world[c], ReadUInt32(Incoming(c).packet.payload)) # NullActor
       IN
          \A c \in Clients :
             UpdateArrives(c)
             => LET payload == Incoming(c).packet.payload
                    obj == GetActorByNetId(world[c], ReadUInt32(payload))
                    props == ActorOf(world'[c], obj).m_replicatedProperties
                IN  \A e \in WrittenEntries(payload, 8, ReadUInt(payload, 4, 4).value) :
                        \E k \in DOMAIN props :
                            /\ props[k].key = e.name
                            /\ props[k].prop.name = e.name
                            /\ props[k].prop.type = e.kind
                            /\ props[k].prop.data = e.value]_vars


----------------------------------------------------------------------------
(* C15 as claimed: once the first burst after a client's connection has     *)
(* been delivered to it (and the server's values are still those of the     *)
(* last burst), the client's world holds a copy of every replicated actor   *)
(* and each of its replicated properties equals the server's current value. *)
FirstBurstBringsCurrentValues ==
    LET
        \* The server's connections to client c that are Connected, that a burst
        \* has replicated to, and whose packets the client has all processed.
        Delivered(c) ==
            {sc \in Conns(Server) :
                /\ sc.m_address = c
                /\ sc.m_state = "Connected"
                /\ sc.id \in repl.replicated
                /\ sc.m_outgoingQueue = << >>
                /\ sock[c] = << >>}
        \* The server's replicated actors whose properties are as the last burst
        \* found them.
        Settled ==
            {repl.snapshot[i].actor : i \in
                {j \in DOMAIN repl.snapshot :
                    \A k \in DOMAIN repl.snapshot[j].data :
                        ActorOf(world[Server], repl.snapshot[j].actor).m_replicatedProperties[k].prop.data
                            = repl.snapshot[j].data[k]}}
    IN
        \A c \in Clients :
            Delivered(c) # {} =>
                \A obj \in Settled :
                    LET actor == ActorOf(world[Server], obj)
                    IN  \E copy \in SeqToSet(world[c].m_actors) :
                            /\ copy.m_netId = actor.m_netId
                            /\ \A k \in DOMAIN actor.m_replicatedProperties :
                                  copy.m_replicatedProperties[k].prop.data
                                      = actor.m_replicatedProperties[k].prop.data


----------------------------------------------------------------------------
(* C16 as claimed: for every connection the server holds and every          *)
(* replicating actor, exactly one ActorSpawn packet has been enqueued once  *)
(* a burst has evaluated the pair, and none before: the first burst sends   *)
(* one and no later burst sends another.                                    *)
SpawnOncePerPair ==
    LET
        \* The ActorSpawn packets the server's connection sc has been handed.
        SpawnsSent(sc) == {n \in DOMAIN sc.sent : sc.sent[n].packetType = ActorSpawn}
    IN
        \A sc \in Conns(Server) :
            Cardinality(SpawnsSent(sc)) =
                IF sc.id \in repl.replicated THEN Len(repl.m_replicatedActors) ELSE 0


----------------------------------------------------------------------------
(* C18 as claimed: every key of the replication engine's per-connection     *)
(* state map is a connection that is in the server driver's connection set. *)
StatesOnlyOfLiveConnections ==
    \A e \in repl.m_connectionStates :
        \E id \in Live(driver[Server]) : alloc[id] = e.connection


----------------------------------------------------------------------------
(* C17 as claimed: a burst that finds every replicated property of an actor *)
(* as the previous burst found it enqueues no ActorReplication packet for   *)
(* that actor, and every ActorReplication packet enqueued has a changed     *)
(* count of at least 1.                                                     *)
UnchangedBetweenBurstsNoPacket ==
    [][LET
           \* This step is a server tick that emits a replication burst.
           BurstStep ==
               \E deltaTime \in DeltaFrames :
                   ReplTick(Server, deltaTime) /\ BurstDue(repl, deltaTime)
           \* The ActorReplication packets for the actor with NetId netId that the
           \* step enqueues on any connection of the server.
           UpdatesEnqueued(netId) ==
               UNION {{q \in Enqueued(c, ActorReplication) : ReadUInt32(q.payload) = netId} :
                         c \in Conns(Server)}
       IN
          /\ BurstStep =>
                 \A i \in DOMAIN repl.snapshot :
                     LET actor == ActorOf(world[Server], repl.snapshot[i].actor)
                     IN  (\A k \in DOMAIN actor.m_replicatedProperties :
                             actor.m_replicatedProperties[k].prop.data
                                 = repl.snapshot[i].data[k])
                         => UpdatesEnqueued(actor.m_netId) = {}
          /\ \A c \in Conns(Server)' : \A n \in DOMAIN c.m_outgoingQueue :
                 c.m_outgoingQueue[n].packetType = ActorReplication
                 => ReadUInt(c.m_outgoingQueue[n].payload, 4, 4).value >= 1]_vars

(* C17 as amended: a step of the server (in particular a burst) that finds  *)
(* every replicated property of an actor equal to its cached last value     *)
(* (the value last put into a packet) enqueues no ActorReplication packet   *)
(* for that actor, and every ActorReplication packet enqueued has a changed *)
(* count of at least 1.                                                     *)
UnchangedSinceSentNoPacket ==
    [][LET
           \* The ActorReplication packets for the actor with NetId netId that the
           \* step enqueues on any connection of the server.
           UpdatesEnqueued(netId) ==
               UNION {{q \in Enqueued(c, ActorReplication) : ReadUInt32(q.payload) = netId} :
                         c \in Conns(Server)}
       IN
          /\ \A actor \in SeqToSet(world[Server].m_actors) :
                 Changed(actor.m_replicatedProperties) = << >>
                 => UpdatesEnqueued(actor.m_netId) = {}
          /\ \A c \in Conns(Server)' : \A n \in DOMAIN c.m_outgoingQueue :
                 c.m_outgoingQueue[n].packetType = ActorReplication
                 => ReadUInt(c.m_outgoingQueue[n].payload, 4, 4).value >= 1]_vars

\* The latest burst evaluated a connection that had been sent an
\* ActorReplication packet by an earlier burst, found nothing changed and
\* sent it none.
QuietBurstWitness ==
    \E sc \in Conns(Server) : \E e \in repl.skipped :
        /\ e.connection = sc.id
        /\ \E n \in DOMAIN sc.sent : sc.sent[n].packetType = ActorReplication
        /\ \A i \in DOMAIN sc.m_outgoingQueue :
              sc.m_outgoingQueue[i].packetType # ActorReplication


----------------------------------------------------------------------------
(* C19 as claimed, its first part: in every reachable state of every        *)
(* process's World, the server's and the clients', no two live actors have  *)
(* the same NetId.                                                          *)
NetIdsUnique ==
    \A d \in Drivers :
        \A i, j \in DOMAIN world[d].m_actors :
            world[d].m_actors[i].m_netId = world[d].m_actors[j].m_netId => i = j


----------------------------------------------------------------------------
(* PropertySpec: one actor registers one property over a Bool, an Int32 or  *)
(* a Vector3 variable with any initial value; afterwards the application    *)
(* assigns the variable, the replication engine calls UpdateLastValue and a *)
(* received update is deserialized into the property, in any order.  op is  *)
(* the latest of these operations, cached tells whether UpdateLastValue has *)
(* run since the registration.                                              *)

PropertyNext ==
    LET Values == {<< 0 >>, << 1 >>}
                      \cup {WriteUInt32(v) :
                               v \in {0, 1, 57, InitialHealth, 255, 256, 65536, 16777216}}
                      \cup {Padding(12), << 0, 0, 128, 63 >> \o Padding(8),
                            Padding(8) \o << 0, 0, 128, 63 >>}
        Kind(data) == IF Len(data) = 1 THEN Bool
                      ELSE IF Len(data) = 4 THEN Int32 ELSE Vector3
    IN  \* Actor::RegisterProperty in the actor's constructor
        \/ /\ property.op = "none"
           /\ \E data \in Values :
                 property' = [p |-> NewProperty(HealthName, Kind(data), data),
                              op |-> "register", cached |-> FALSE]
           /\ UNCHANGED << driver, sock, net, drops, dups, appSends, ticks,
                           world, repl, alloc, rpc >>
        \* the application assigns the bound variable
        \/ /\ property.op # "none"
           /\ \E data \in Values :
                 /\ Len(data) = property.p.size
                 /\ data # property.p.data
                 /\ property' = [property EXCEPT !.p.data = data, !.op = "write"]
           /\ UNCHANGED << driver, sock, net, drops, dups, appSends, ticks,
                           world, repl, alloc, rpc >>
        \* ReplicatedProperty::UpdateLastValue
        \/ /\ property.op # "none"
           /\ property' = [p |-> UpdateLastValue(property.p), op |-> "update",
                           cached |-> TRUE]
           /\ UNCHANGED << driver, sock, net, drops, dups, appSends, ticks,
                           world, repl, alloc, rpc >>
        \* ReplicatedProperty::Deserialize of what a property of the same
        \* width serialized
        \/ /\ property.op # "none"
           /\ \E data \in Values :
                 /\ Len(data) = property.p.size
                 /\ property' =
                        [p |-> Property_Deserialize(
                                   property.p,
                                   Property_Serialize(
                                       NewProperty(HealthName, Kind(data), data)),
                                   0).prop,
                         op |-> "deserialize", cached |-> TRUE]
           /\ UNCHANGED << driver, sock, net, drops, dups, appSends, ticks,
                           world, repl, alloc, rpc >>

PropertySpec == Init /\ [][PropertyNext]_vars

(* C24 as claimed: a property that has just been registered reports         *)
(* HasChanged, whatever the initial value of the bound variable, a value of *)
(* zero bytes included.                                                     *)
FreshPropertyHasChanged ==
    property.op = "register" => HasChanged(property.p)

(* C25: once UpdateLastValue has run, HasChanged is false right after it    *)
(* and from then on is true exactly while the bytes of the bound variable   *)
(* differ from the cached last value.                                       *)
ChangedIffBytesDiffer ==
    property.cached =>
        /\ property.op = "update" => ~HasChanged(property.p)
        /\ HasChanged(property.p) <=> property.p.data # property.p.lastValue

\* UpdateLastValue has cached a value other than zero and a later assignment
\* makes HasChanged true.
ChangedAfterCacheWitness ==
    /\ property.cached
    /\ property.op = "write"
    /\ property.p.lastValue # Padding(property.p.size)
    /\ HasChanged(property.p)

(* C26 as claimed: every replicated property of every actor, on the server *)
(* and on the clients, keeps the name, the kind and the size it was        *)
(* registered with, also after ActorReplication packets were decoded into  *)
(* it.                                                                     *)
RegisteredShapeKept ==
    \A d \in Drivers : \A obj \in Owned(world[d]) :
        LET now == ActorOf(world[d], obj).m_replicatedProperties
            registered == NewPlayerActor(obj).m_replicatedProperties
        IN  /\ Len(now) = Len(registered)
            /\ \A k \in DOMAIN now :
                  /\ now[k].prop.name = registered[k].prop.name
                  /\ now[k].prop.type = registered[k].prop.type
                  /\ now[k].prop.size = registered[k].prop.size

(* C29 as claimed: on every connection of the server each ActorReplication *)
(* packet for the actor was enqueued after an ActorSpawn packet for it,    *)
(* i.e. with a higher sequence number (the server has one actor).          *)
SpawnBeforeUpdate ==
    \A c \in Conns(Server) : \A n \in DOMAIN c.sent :
        c.sent[n].packetType = ActorReplication
            => \E m \in 1..(n - 1) :
                  /\ c.sent[m].packetType = ActorSpawn
                  /\ c.sent[m].sequence < c.sent[n].sequence

(* C34 as claimed: in every process every entry of the World's NetId       *)
(* lookup map points to an actor the World owns, and that actor's NetId is *)
(* the entry's key.                                                        *)
LookupMapConsistent ==
    \A d \in Drivers : \A e \in world[d].m_actorsByNetId :
        /\ e.actor \in Owned(world[d])
        /\ ActorOf(world[d], e.actor).m_netId = e.netId

----------------------------------------------------------------------------
(* DestroySpec: the server of ReplSpec with client c1 on a lossless         *)
(* network, its frame being World::Tick followed by NetworkManager::Tick    *)
(* (samples/SimpleServer); between frames the application may destroy the   *)
(* server's actor.  A burst over a registered actor that the destroy pass   *)
(* has freed reads freed memory: what the program does from there on is     *)
(* undefined, and the specification follows the server's ticks up to that   *)
(* read and no further.                                                     *)

\* The registered actors that the World no longer owns.
Dangling == SeqToSet(repl.m_replicatedActors) \ Owned(world[Server])

DestroyNext ==
    \/ ReplConnect("c1")
    \/ \E d \in Drivers :
          /\ d = Server => world[Server].cursor = 0
          /\ ReplReceive(d)
    \/ \E d \in Drivers, deltaTime \in DeltaFrames :
          /\ d = Server => /\ world[Server].cursor = 0
                           /\ ~(BurstDue(repl, deltaTime) /\ Dangling # {})
          /\ ReplTick(d, deltaTime)
    \/ \E obj \in Owned(world[Server]) :
          AppDestroyActor(Server, [op |-> "DestroyActor", actor |-> obj])
    \/ TickHook(Server, [op |-> "none"])
    \/ TickDestroyPass(Server)

DestroySpec == ReplInit /\ [][DestroyNext]_vars

(* C35 as claimed: every actor in the replication engine's list of          *)
(* replicated actors is an actor the server's World currently owns.         *)
ReplicatedActorsLive == Dangling = {}

(* C36 as claimed: by the end of the server's network tick that follows the *)
(* destroy pass, every Connected peer to which a since destroyed actor had  *)
(* been spawned has been sent an ActorDestroy packet with the actor's       *)
(* NetId.                                                                   *)
DestroyReachesPeers ==
    [][LET
           \* The NetIds spawned to the connection object at ptr whose actor
           \* the World no longer holds.
           Destroyed(ptr) ==
               {e.actorNetId : e \in {x \in repl.m_connectionStates :
                                         x.connection = ptr /\ x.spawned}}
                   \ {a.m_netId : a \in SeqToSet(world[Server].m_actors)}
       IN
           (\E deltaTime \in DeltaFrames :
                 /\ ~(BurstDue(repl, deltaTime) /\ Dangling # {})
                 /\ ReplTick(Server, deltaTime))
               => \A c \in Conns(Server)' :
                     (c.m_state = "Connected" /\ c.id \in Live(driver[Server]))
                         => \A n \in Destroyed(alloc[c.id]) :
                               \E k \in DOMAIN c.sent :
                                   /\ c.sent[k].packetType = ActorDestroy
                                   /\ c.sent[k].payload = WriteUInt32(n)]_vars

----------------------------------------------------------------------------
(* RpcSpec: the server and client c1, each with one PlayerActor spawned     *)
(* locally under NetId 1, over a network that delays and reorders           *)
(* datagrams.  The applications register "Fire" under any RPC type, call    *)
(* the three RPC entry points and send ActorReplication packets; on-packet  *)
(* is NetworkManager::OnPacketReceived.                                     *)

RPCKinds == {RPCServer, RPCClient, RPCMulticast}

RpcInit ==
    /\ driver = [d \in Drivers |->
                    IF d = Server
                    THEN NewDriver("Server", DEFAULT_MAX_CONNECTIONS)
                    ELSE NewDriver("Client", DEFAULT_MAX_CONNECTIONS)]
    /\ sock = [d \in Drivers |-> << >>]
    /\ net = EmptyBag
    /\ drops = 0
    /\ dups = 0
    /\ appSends = 0
    /\ ticks = [d \in Drivers |-> 0]
    /\ world = [d \in Drivers |-> SpawnActorByType(NewWorld, PlayerActorName).world]
    /\ repl = NewReplicationManager
    /\ alloc = [id \in ConnIds |-> 0]
    /\ rpc = [d \in Drivers |-> NewRPCManager]
    /\ property = [p |-> NewProperty(<< >>, Bool, << >>), op |-> "none", cached |-> FALSE]

\* One iteration of the receive loop with NetworkManager's on-packet
\* callback: RPC kinds go to ProcessRPC, the replication kinds to the
\* replication engine.
RpcReceive(d) ==
    /\ ReceiveDatagram(d, FALSE)
    /\ LET passed == PassesToOnPacket(driver[d], Head(sock[d]).src, Head(sock[d]).data)
           packet == Incoming(d).packet
       IN  /\ world' = [world EXCEPT ![d] =
                           IF passed THEN OnPacketReceived(@, packet) ELSE @]
           /\ rpc' = [rpc EXCEPT ![d] =
                         IF passed /\ packet.packetType \in RPCKinds
                         THEN ProcessRPC(@, world[d], packet)
                         ELSE @]
    /\ UNCHANGED << ticks, repl, alloc, property >>

RpcNext ==
    LET Calls(d, D) ==
            /\ appSends < MaxAppSends
            /\ D # driver[d]
            /\ Step(d, D, sock, FALSE)
            /\ appSends' = appSends + 1
            /\ UNCHANGED << drops, dups, ticks, game >>
        LocalActor(d) == GetActorByNetId(world[d], 1)
        \* "Fire": the function name the applications register and call.
        FireName == << 70, 105, 114, 101 >>
    IN  \/ AppConnectToServer("c1", FALSE) /\ UNCHANGED << ticks, game >>
        \/ \E d \in {Server, "c1"}, type \in {"Server", "Client", "Multicast"} :
              /\ rpc[d].m_rpcRegistry = {}
              /\ rpc' = [rpc EXCEPT ![d] = RegisterRPC(@, FireName, type)]
              /\ UNCHANGED << driver, sock, net, drops, dups, appSends, ticks,
                              world, repl, alloc, property >>
        \/ \E d \in {Server, "c1"} :
              Calls(d, CallServerRPC(driver[d], world[d], LocalActor(d), FireName, << >>))
        \/ \E d \in {Server, "c1"}, client \in ConnIds :
              /\ client \in SeqToSet(driver[d].m_connectionList)
              /\ Calls(d, CallClientRPC(driver[d], world[d], LocalActor(d), client, FireName, << >>))
        \/ \E d \in {Server, "c1"} :
              Calls(d, CallMulticastRPC(driver[d], world[d], LocalActor(d), FireName, << >>, 1))
        \/ \E d \in {Server, "c1"}, id \in ConnIds :
              AppSendPacket(d, id, ActorReplication, TRUE, FALSE)
                  /\ UNCHANGED << ticks, game >>
        \* The application builds a Packet of an RPC kind itself and hands it
        \* to NetDriver::SendPacket.
        \/ \E d \in {Server, "c1"}, id \in ConnIds, kind \in RPCKinds :
              /\ id \in SeqToSet(driver[d].m_connectionList)
              /\ Calls(d, NetDriver_SendPacket(
                              driver[d], id,
                              [MakePacket(kind) EXCEPT
                                  !.payload = WriteUInt32(1) \o WriteString(FireName)],
                              TRUE))
        \/ \E d \in {Server, "c1"} : RpcReceive(d)
        \/ \E d \in {Server, "c1"} :
              TickRest(d, 0, TotalQueued(driver[d]), FALSE) /\ UNCHANGED << ticks, game >>
        \/ \E dg \in BagToSet(net) : Deliver(dg) /\ UNCHANGED << ticks, game >>

RpcSpec == RpcInit /\ [][RpcNext]_vars

(* C21: ProcessRPC invokes the handler registered under the packet's       *)
(* function name only when the packet's kind is the kind of the handler's  *)
(* declared type (Server -> RPCServer, Client -> RPCClient, Multicast ->   *)
(* RPCMulticast); a packet of any other kind invokes no handler and logs   *)
(* the mismatch.                                                           *)
InvokedOnlyOnMatchingKind ==
    [][\A d \in {Server, "c1"} :
          LET KindOf(type) == CASE type = "Server" -> RPCServer
                                [] type = "Client" -> RPCClient
                                [] type = "Multicast" -> RPCMulticast
              before == rpc[d].invoked
              after == rpc'[d].invoked
              packet == Incoming(d).packet
              named == {e \in rpc[d].m_rpcRegistry :
                           e.name = ReadString(packet.payload, 4).value}
          IN  /\ after # before =>
                    /\ sock[d] # << >>
                    /\ packet.packetType \in RPCKinds
                    /\ \E e \in named :
                          /\ packet.packetType = KindOf(e.type)
                          /\ Len(after) = Len(before) + 1
                          /\ after[Len(after)].type = e.type
                          /\ after[Len(after)].packetType = KindOf(e.type)
              /\ (/\ sock[d] # << >>
                  /\ sock'[d] # sock[d]
                  /\ packet.packetType \in RPCKinds
                  /\ \E e \in named : packet.packetType # KindOf(e.type))
                 => after = before
    ]_vars

InvokedAndDroppedWitness ==
    \E d \in {Server, "c1"} :
        /\ rpc[d].invoked # << >>
        /\ rpc[d].mismatches > 0

(* C22 as claimed: when a receive-loop iteration hands an RPC packet to    *)
(* the application, every ActorReplication packet that the peer enqueued   *)
(* earlier on the same connection (a lower sequence) has been handed to    *)
(* the application before, however the network ordered the datagrams.      *)
UpdateHandedBeforeLaterRPC ==
    [][\A d \in {Server, "c1"} :
          (/\ sock[d] # << >>
           /\ sock'[d] # sock[d]
           /\ PassesToOnPacket(driver[d], Head(sock[d]).src, Head(sock[d]).data)
           /\ Incoming(d).packet.packetType \in RPCKinds)
          => LET from == Head(sock[d]).src
                 here == FindConnection(driver[d], from)
                 there == FindConnection(driver[from], d)
             IN  \A n \in DOMAIN ConnOf(driver[from], there).sent :
                     LET earlier == ConnOf(driver[from], there).sent[n]
                     IN  (/\ earlier.packetType = ActorReplication
                          /\ earlier.sequence < Incoming(d).packet.sequence)
                         => [conn |-> here, packetType |-> ActorReplication,
                             sequence |-> earlier.sequence] \in driver[d].onPacket
    ]_vars

(* C37 as claimed: the server invokes only handlers declared Server, and a *)
(* client only handlers declared Client or Multicast, whatever packets the *)
(* peer sends.                                                             *)
RoleGatesExecution ==
    /\ \A k \in DOMAIN rpc[Server].invoked : rpc[Server].invoked[k].type = "Server"
    /\ \A k \in DOMAIN rpc["c1"].invoked :
          rpc["c1"].invoked[k].type \in {"Client", "Multicast"}

----------------------------------------------------------------------------
(* AcceptSpec: client c1 connects to the server over a lossless in-order    *)
(* network that may duplicate the datagram a socket returns next, while     *)
(* another host puts ConnectionAccept datagrams on the wire to c1.          *)

AcceptNext ==
    \/ AppConnectToServer("c1", TRUE) /\ UNCHANGED << ticks, game >>
    \/ \E d \in {Server, "c1"} : ReceiveDatagram(d, TRUE) /\ UNCHANGED << ticks, game >>
    \/ \E d \in {Server, "c1"} :
          TickRest(d, 0, TotalQueued(driver[d]), TRUE) /\ UNCHANGED << ticks, game >>
    \/ \E d \in {Server, "c1"}, id \in ConnIds, kind \in AppKinds :
          AppSendPacket(d, id, kind, TRUE, TRUE) /\ UNCHANGED << ticks, game >>
    \/ DuplicateHead("c1")
    \* receive-from on c1's socket will return a ConnectionAccept from host c2.
    \/ /\ appSends < MaxAppSends
       /\ sock' = [sock EXCEPT !["c1"] =
                      Append(@, [src |-> "c2",
                                 data |-> Packet_Serialize(MakePacket(ConnectionAccept))])]
       /\ appSends' = appSends + 1
       /\ UNCHANGED << driver, net, drops, dups, ticks, game >>

AcceptSpec == Init /\ [][AcceptNext]_vars

(* C38 as claimed: c1's server connection becomes Connected, and c1's       *)
(* on-connect callback runs, only in a receive-loop iteration for a         *)
(* ConnectionAccept datagram whose source is the address given to           *)
(* ConnectToServer; an iteration for a ConnectionAccept from any other      *)
(* address leaves the driver as it was.                                     *)
AcceptOnlyFromServer ==
    [][LET D == driver["c1"]
           \* This step is c1's receive-loop iteration for a ConnectionAccept.
           AcceptStep ==
               /\ ReceiveDatagram("c1", TRUE)
               /\ Incoming("c1").ok
               /\ Incoming("c1").packet.packetType = ConnectionAccept
           FromServer ==
               /\ D.m_serverConnection # NullConn
               /\ Head(sock["c1"]).src = ConnOf(D, D.m_serverConnection).m_address
           Connected(D1) ==
               /\ D1.m_serverConnection # NullConn
               /\ ConnOf(D1, D1.m_serverConnection).m_state = "Connected"
       IN  /\ (AcceptStep /\ ~FromServer) => driver'["c1"] = D
           /\ ( \/ Connected(driver'["c1"]) /\ ~Connected(D)
                \/ driver'["c1"].onConnection # D.onConnection )
                  => AcceptStep /\ FromServer]_vars

(* C39 as claimed: c1's on-connect callback runs at most once for its       *)
(* server connection.                                                       *)
OnConnectAtMostOnce ==
    \A id \in ConnIds : driver["c1"].onConnection[id] <= 1

----------------------------------------------------------------------------
(* ShutdownSpec: the server and client c1 with lossless in-order delivery.  *)
(* The client's frames last 0, 15 or 16 seconds; the server's frames are    *)
(* short, and the server may shut down, after which its socket is closed.   *)
(* A socket may report would-block after any number of datagrams of a tick. *)

ShutdownNext ==
    \/ AppConnectToServer("c1", TRUE) /\ UNCHANGED << ticks, game >>
    \/ \E d \in {Server, "c1"}, id \in ConnIds :
          AppSendPacket(d, id, Heartbeat, FALSE, TRUE) /\ UNCHANGED << ticks, game >>
    \/ \E d \in {Server, "c1"} :
          /\ driver[d].m_mode # "Standalone"
          /\ ReceiveDatagram(d, TRUE)
          /\ UNCHANGED << ticks, game >>
    \/ /\ driver[Server].m_mode = "Server"
       /\ Step(Server, NetDriver_Shutdown(driver[Server]), sock, TRUE)
       /\ UNCHANGED << drops, dups, appSends, ticks, game >>
    \/ \E room \in 0..(MaxSeq * MaxConnIds) :
          /\ driver[Server].m_mode = "Server"
          /\ TickRest(Server, 0, room, TRUE)
          /\ UNCHANGED << ticks, game >>
    \/ \E deltaTime \in DeltaTimes, room \in 0..(MaxSeq * MaxConnIds) :
          /\ TickRest("c1", deltaTime, room, TRUE)
          /\ UNCHANGED << ticks, game >>

ShutdownSpec == Init /\ [][ShutdownNext]_vars

(* C23 as claimed: a client tick after which more than 30 seconds of tick  *)
(* time have passed since the client's server connection last received a   *)
(* packet removes that connection and invokes on-disconnect for it.        *)
ClientTimesOut ==
    [][\A c \in Conns("c1"), deltaTime \in DeltaTimes :
          (/\ \E room \in 0..(MaxSeq * MaxConnIds) : TickRest("c1", deltaTime, room, TRUE)
           /\ c.m_state = "Connected"
           /\ c.m_currentTime + deltaTime - c.m_lastReceiveTime > ConnectionTimeout)
          => /\ ~HasConn(driver'["c1"], c.id)
             /\ driver'["c1"].onDisconnection[c.id] = 1
    ]_vars

(* C30: a tick's flush goes through the driver's connections in order;   *)
(* for each it hands the packets at the front of the queue to send-to in   *)
(* queue order, as many as the socket still accepts before it reports      *)
(* would-block, and removes exactly those; the packet that met would-block *)
(* and all behind it stay queued in the same order.                        *)
FlushKeepsQueueOrder ==
    [][\A d \in {Server, "c1"}, deltaTime \in DeltaTimes, room \in 0..(MaxSeq * MaxConnIds) :
          TickRest(d, deltaTime, room, TRUE)
          => LET conns == driver[d].m_connections
                 \* Datagrams the socket has accepted before the i-th connection's flush.
                 RECURSIVE Before(_)
                 Before(i) ==
                     IF i = 1
                     THEN 0
                     ELSE Before(i - 1)
                              + Min(room - Before(i - 1),
                                    Len(conns[i - 1].m_outgoingQueue))
                 Taken(i) == Min(room - Before(i), Len(conns[i].m_outgoingQueue))
                 \* What the connections from the i-th on hand to send-to for address to.
                 RECURSIVE Handed(_, _)
                 Handed(i, to) ==
                     IF i > Len(conns)
                     THEN << >>
                     ELSE (IF conns[i].m_address = to
                           THEN [n \in 1..Taken(i) |->
                                    [src |-> d,
                                     data |-> Packet_Serialize(conns[i].m_outgoingQueue[n])]]
                           ELSE << >>)
                          \o Handed(i + 1, to)
             IN  /\ \A i \in DOMAIN conns :
                       /\ HasConn(driver'[d], conns[i].id)
                       /\ ConnOf(driver'[d], conns[i].id).m_outgoingQueue
                              = SubSeq(conns[i].m_outgoingQueue, Taken(i) + 1,
                                       Len(conns[i].m_outgoingQueue))
                 /\ \A to \in Drivers : sock'[to] = sock[to] \o Handed(1, to)
    ]_vars

\* A flush met would-block: packets sent earlier than the head of the
\* client's queue have reached the server's socket and the rest is queued.
PartialFlushWitness ==
    \E c \in Conns("c1") :
        /\ Len(c.m_outgoingQueue) >= 2
        /\ Head(c.m_outgoingQueue).sequence > 0
        /\ sock[Server] # << >>

============================================================================
